---- MODULE Spec2Model ----
(***************************************************************************)
(* tavily-tools: the response formatter (TavilyFormatter), its artifact    *)
(* writers and the search client's history ledger and batch loop.          *)
(*                                                                         *)
(* Python values are tagged records [k, n, s]: k is the Python type, n the *)
(* numeric payload (scores in hundredths: 0.65 is 65) and s the text, a    *)
(* sequence of symbols.  A dict key that is absent has the value Missing.  *)
(***************************************************************************)
EXTENDS Integers, Sequences, FiniteSets, TLC

VARIABLES
    response,        \* TavilyFormatter.response
    save_path,       \* TavilyFormatter.save_path, a directory (sequence of names)
    dirs,            \* the directories that exist on disk
    files,           \* the files on disk: [dir, name, writer, state]
    filename_arg,    \* the filename the caller supplies in this run
    last,            \* the last call: its name, whether it raised, the path it returned
    quality,         \* what the last analyze_quality returned
    structured,      \* what the last to_dict returned
    html_doc,        \* what the last _generate_html_content returned
    console,         \* what the last print_results / print_full printed, and its limit
    json_doc,        \* the text of the last file save_json wrote in full
    search_history,  \* SearchClient.search_history
    snapshot,        \* the list the last get_search_history returned
    shared,          \* whether that list is the ledger's own list object
    request,         \* the last query sent to the search collaborator, and its reply
    history_doc,     \* the text of the last file export_history wrote in full
    topics,          \* batch_search: the queries given
    options,         \* batch_search: save_json, save_html, print_progress
    outcomes,        \* batch_search: per query handled, its reply and how its try ended
    idx,             \* batch_search: the loop position
    formatters,      \* batch_search: the formatters collected so far
    pc               \* batch_search: "idle", "loop", "done"

vars == <<response, save_path, dirs, files, filename_arg, last, quality, structured, html_doc,
          console, json_doc, search_history, snapshot, shared, request, history_doc, topics, options, outcomes,
          idx, formatters, pc>>

fmtVars == <<response, save_path>>
diskVars == <<dirs, files, filename_arg>>
outVars == <<quality, structured, html_doc, json_doc, console>>
clientVars == <<search_history, snapshot, shared, request, history_doc>>
batchVars == <<topics, options, outcomes, idx, formatters, pc>>

----------------------------------------------------------------------------
(* Python values *)

Val(kind, num, text) == [k |-> kind, n |-> num, s |-> text]
Missing == Val("missing", 0, <<>>)
None == Val("none", 0, <<>>)
Num(x) == Val("num", x, <<>>)
Str(t) == Val("str", 0, t)
NaN == Val("nan", 0, <<>>)
HugeInt == Val("huge", 0, <<>>)
ListVal == Val("list", 0, <<>>)

\* dict.get(key, default): the default only replaces an absent key, never a null
Get(v, default) == IF v.k = "missing" THEN default ELSE v

\* Python truthiness of a value
Truthy(v) ==
    CASE v.k \in {"missing", "none"} -> FALSE
      [] v.k = "num" -> v.n # 0
      [] v.k = "str" -> v.s # <<>>
      [] OTHER -> TRUE

RECURSIVE Concat(_)
Concat(ss) == IF ss = <<>> THEN <<>> ELSE Head(ss) \o Concat(Tail(ss))

RECURSIVE SumSeq(_)
SumSeq(xs) == IF xs = <<>> THEN 0 ELSE Head(xs) + SumSeq(Tail(xs))

----------------------------------------------------------------------------
(* The response mapping *)

Result(title, url, content, score) ==
    [k |-> "map", title |-> title, url |-> url, content |-> content, score |-> score]
\* a result entry that is not a mapping (a string, a number, null)
NotAMapping ==
    [k |-> "notmap", title |-> Missing, url |-> Missing, content |-> Missing,
     score |-> Missing]

ResultsList(items) == [k |-> "list", items |-> items]
ResultsMissing == [k |-> "missing", items |-> <<>>]
ResultsNone == [k |-> "none", items |-> <<>>]

Response(query, response_time, answer, results, follow_up) ==
    [k |-> "map", query |-> query, response_time |-> response_time,
     answer |-> answer, results |-> results, follow_up |-> follow_up]
NoResponse ==
    [k |-> "none", query |-> Missing, response_time |-> Missing, answer |-> Missing,
     results |-> ResultsMissing, follow_up |-> <<>>]
\* follow_up: <<>> stands for an absent or empty follow_up_questions list
EmptyMapping == Response(Missing, Missing, Missing, ResultsMissing, <<>>)

\* `if self.response is None`: only None counts
NotLoadedNoneOnly(r) == r.k = "none"

\* `if not self.response`: None and the empty mapping are both falsy
NotLoaded(r) == r.k = "none" \/ r = EmptyMapping

\* self.response.get("results", [])
GetResults(r) == IF r.results.k = "missing" THEN ResultsList(<<>>) ELSE r.results
\* `if not results`
ResultsFalsy(rs) == rs.k = "none" \/ rs.items = <<>>

----------------------------------------------------------------------------
(* analyze_quality: score coercion, clamping and the three buckets *)

ScoreMin == 0
ScoreMax == 100
HighThreshold == 70
MediumThreshold == 40

\* the texts float() accepts, with their values in hundredths
Numerals == {"0.65", "1.5", "-5"}
NumeralValue(sym) ==
    CASE sym = "0.65" -> 65
      [] sym = "1.5" -> 150
      [] sym = "-5" -> -500

\* float(score): a number, a NaN, or the exception raised
ToFloat(score) ==
    CASE score.k = "num" -> [st |-> "ok", v |-> score.n]
      [] score.k = "nan" -> [st |-> "nan", v |-> 0]
      [] score.k = "huge" -> [st |-> "OverflowError", v |-> 0]
      [] score.k = "str" /\ Len(score.s) = 1 /\ score.s[1] \in Numerals ->
            [st |-> "ok", v |-> NumeralValue(score.s[1])]
      [] score.k = "str" /\ score.s = <<"nan">> -> [st |-> "nan", v |-> 0]
      [] score.k = "str" -> [st |-> "ValueError", v |-> 0]
      [] OTHER -> [st |-> "TypeError", v |-> 0]

\* no clamping at all
ClampOff(f) == f.v

\* the distance from the top score instead of the score
ClampComplement(f) ==
    LET m == IF f.st = "ok" /\ f.v < ScoreMax THEN f.v ELSE ScoreMax
    IN  ScoreMax - (IF m > ScoreMin THEN m ELSE ScoreMin)

\* max(0.0, min(1.0, score)): min and max return their first argument unless the
\* second compares smaller (larger); every comparison with a NaN is false
Clamp(f) ==
    LET m == IF f.st = "ok" /\ f.v < ScoreMax THEN f.v ELSE ScoreMax
    IN  IF m > ScoreMin THEN m ELSE ScoreMin

\* the body of the loop over results: the coerced score, or the exception that escapes
CoerceScore(result) ==
    IF result.k # "map" THEN [st |-> "AttributeError", v |-> 0]
    ELSE LET score == Get(result.score, Num(0))
         IN  IF score.k = "none" THEN [st |-> "ok", v |-> 0]
             ELSE LET f == ToFloat(score)
                  IN  CASE f.st \in {"ok", "nan"} -> [st |-> "ok", v |-> Clamp(f)]
                        [] f.st \in {"ValueError", "TypeError"} -> [st |-> "ok", v |-> 0]
                        [] OTHER -> [st |-> f.st, v |-> 0]

\* a medium bucket that excludes its two bounds
IsMediumExclusive(score) == MediumThreshold < score /\ score < HighThreshold

IsHigh(score) == score > HighThreshold
IsMedium(score) == MediumThreshold <= score /\ score <= HighThreshold
IsLow(score) == score < MediumThreshold

Report(kind, count, scores, high, medium, low, rt) ==
    [k |-> kind, count |-> count, scores |-> scores, total |-> SumSeq(scores),
     high |-> high, medium |-> medium, low |-> low, response_time |-> rt]
NoReport == Report("unset", 0, <<>>, 0, 0, 0, Missing)

\* "平均评分": sum(scores) / len(scores), the literal 0 when there are no results; a
\* fraction of hundredths
Average(report) ==
    IF report.count = 0 THEN [num |-> 0, den |-> 1]
    ELSE [num |-> report.total, den |-> report.count]

\* an analyzer that reports no results, and the response time without its default
AnalyzeQualityRawTime(r) ==
    IF NotLoaded(r) THEN Report("empty", 0, <<>>, 0, 0, 0, Missing)
    ELSE Report("report", 0, <<>>, 0, 0, 0, r.response_time)

\* the average is total / count (0 when there are no scores)
AnalyzeQuality(r) ==
    IF NotLoaded(r) THEN Report("empty", 0, <<>>, 0, 0, 0, Missing)
    ELSE LET results == GetResults(r)
             rt == Get(r.response_time, Str(<<"N/A">>))
         IN  IF ResultsFalsy(results) THEN Report("report", 0, <<>>, 0, 0, 0, rt)
             ELSE LET coerced == [i \in DOMAIN results.items |->
                                     CoerceScore(results.items[i])]
                      scores == [i \in DOMAIN coerced |-> coerced[i].v]
                  IN  IF \E i \in DOMAIN coerced : coerced[i].st # "ok"
                      THEN Report("raised", 0, <<>>, 0, 0, 0, Missing)
                      ELSE Report("report", Len(results.items), scores,
                                  Cardinality({i \in DOMAIN scores : IsHigh(scores[i])}),
                                  Cardinality({i \in DOMAIN scores : IsMedium(scores[i])}),
                                  Cardinality({i \in DOMAIN scores : IsLow(scores[i])}), rt)

----------------------------------------------------------------------------
(* to_dict: the structured document *)

\* dict.get(key) without a default: an absent key reads as None
GetOrNone(v) == Get(v, None)

Entry(rank, result) ==
    [rank |-> rank, title |-> GetOrNone(result.title), url |-> GetOrNone(result.url),
     score |-> GetOrNone(result.score), content |-> GetOrNone(result.content)]

Document(kind, query, rt, count, answer, entries, follow_up) ==
    [k |-> kind, query |-> query, response_time |-> rt, count |-> count,
     answer |-> answer, results |-> entries, follow_up |-> follow_up]
NoDocument == Document("unset", Missing, Missing, 0, Missing, <<>>, <<>>)

ToDict(r) ==
    IF NotLoaded(r) THEN Document("None", Missing, Missing, 0, Missing, <<>>, <<>>)
    ELSE LET results == GetResults(r)
         IN  IF results.k = "none"        \* len(None): TypeError
                \/ \E i \in DOMAIN results.items : results.items[i].k # "map"
             THEN Document("raised", Missing, Missing, 0, Missing, <<>>, <<>>)
             ELSE Document("dict", GetOrNone(r.query), GetOrNone(r.response_time),
                           Len(results.items), GetOrNone(r.answer),
                           [i \in DOMAIN results.items |-> Entry(i, results.items[i])],
                           r.follow_up)

----------------------------------------------------------------------------
(* Text helpers: texts are sequences of one-character symbols *)

RECURSIVE FilterSeq(_, _)
FilterSeq(t, keep) ==
    IF t = <<>> THEN <<>>
    ELSE (IF Head(t) \in keep THEN <<Head(t)>> ELSE <<>>) \o FilterSeq(Tail(t), keep)

\* str.strip(): drop the leading and trailing blanks
RECURSIVE LStrip(_)
LStrip(t) == IF t # <<>> /\ Head(t) = " " THEN LStrip(Tail(t)) ELSE t
RECURSIVE RStripChar(_, _)
RStripChar(t, ch) ==
    IF t # <<>> /\ t[Len(t)] = ch THEN RStripChar(SubSeq(t, 1, Len(t) - 1), ch) ELSE t
Strip(t) == RStripChar(LStrip(t), " ")

\* re.sub(ch+, "_", t): every maximal run of ch becomes one underscore
RECURSIVE SkipRun(_, _)
SkipRun(t, ch) == IF t # <<>> /\ Head(t) = ch THEN SkipRun(Tail(t), ch) ELSE t
RECURSIVE CollapseRuns(_, _)
CollapseRuns(t, ch) ==
    IF t = <<>> THEN <<>>
    ELSE IF Head(t) = ch THEN <<"_">> \o CollapseRuns(SkipRun(Tail(t), ch), ch)
    ELSE <<Head(t)>> \o CollapseRuns(Tail(t), ch)

\* whether needle occurs in text as a contiguous run
Occurs(needle, text) ==
    \E i \in 1..(Len(text) - Len(needle) + 1) :
        SubSeq(text, i, i + Len(needle) - 1) = needle

\* str(value)
PyStr(v) ==
    CASE v.k = "str" -> v.s
      [] v.k = "none" -> <<"None">>
      [] v.k = "num" -> <<ToString(v.n)>>
      [] v.k = "nan" -> <<"nan">>
      [] v.k = "huge" -> <<"1e400">>
      [] OTHER -> <<"[]">>

----------------------------------------------------------------------------
(* helpers.clean_filename and format_timestamp *)

DefaultMaxLength == 50

UnsafeChars == {"<", ">", ":", "\"", "/", "\\", "|", "?", "*"}
\* the characters of the model's alphabets that \w matches
\* (CJK stands for a Chinese character: \w is Unicode-aware)
CJK == "U+4E2D"
WordChars == {"a", "A", "s", "x", "e", "r", "c", "h", "_", CJK}
KeptChars == WordChars \cup {"-", "_", ".", " "}

ReplaceUnsafe(ch) == IF ch \in UnsafeChars THEN "_" ELSE ch

\* clean_filename(filename, max_length); raises TypeError on a truthy non-text
CleanFilename(filename, max_length) ==
    IF ~Truthy(filename) THEN [st |-> "ok", s |-> <<"unnamed">>]
    ELSE IF filename.k # "str" THEN [st |-> "TypeError", s |-> <<>>]
    ELSE LET replaced == [i \in DOMAIN filename.s |-> ReplaceUnsafe(filename.s[i])]
             kept == FilterSeq(replaced, KeptChars)
             joined == CollapseRuns(Strip(kept), " ")
             collapsed == CollapseRuns(joined, "_")
             cut == IF Len(collapsed) > max_length
                    THEN RStripChar(SubSeq(collapsed, 1, max_length), "_")
                    ELSE collapsed
         IN  [st |-> "ok", s |-> IF cut = <<>> THEN <<"unnamed">> ELSE cut]

\* format_timestamp(): the wall clock, read as YYYYMMDD_HHMMSS
Now == "20250101_000000"
Timestamps == {Now, "20250101_000001"}

\* f"tavily_{clean_filename(query)}_{format_timestamp()}{ext}"
GeneratedName(slug, ts, ext) == <<"tavily_">> \o slug \o <<"_", ts, ext>>

----------------------------------------------------------------------------
(* Paths and the disk *)

\* the components of a path text, split at "/"
RECURSIVE SplitPath(_)
SplitPath(t) ==
    IF \A i \in DOMAIN t : t[i] # "/" THEN <<t>>
    ELSE LET j == CHOOSE i \in DOMAIN t : t[i] = "/" /\ \A h \in 1..(i - 1) : t[h] # "/"
         IN  <<SubSeq(t, 1, j - 1)>> \o SplitPath(SubSeq(t, j + 1, Len(t)))

RECURSIVE DropDots(_)
DropDots(cs) ==
    IF cs = <<>> THEN <<>>
    ELSE (IF Head(cs) \in {<<>>, <<".">>} THEN <<>> ELSE <<Head(cs)>>) \o DropDots(Tail(cs))

\* the filename joined to the save directory as given, directories and all
PathNameKeptWhole(filename) == filename

\* Path(filename).name: the final component, "" when there is none; pathlib drops
\* empty and "." components and keeps ".."
PathName(filename) ==
    LET parts == DropDots(SplitPath(filename))
    IN  IF parts = <<>> THEN <<>> ELSE parts[Len(parts)]

Parent(dir) == IF dir = <<>> THEN <<>> ELSE SubSeq(dir, 1, Len(dir) - 1)

\* the operating system's walk from directory `start` along the components `cs`:
\* the directory and name of the file the path denotes, or the error of open()
RECURSIVE Resolve(_, _, _)
Resolve(start, cs, ds) ==
    IF start \notin ds THEN [st |-> "ENOENT", dir |-> <<>>, name |-> <<>>]
    ELSE IF cs = <<>> THEN [st |-> "EISDIR", dir |-> start, name |-> <<>>]
    ELSE LET c == Head(cs)
             next == CASE c \in {<<>>, <<".">>} -> start
                       [] c = <<".", ".">> -> Parent(start)
                       [] OTHER -> Append(start, c)
         IN  IF Len(cs) = 1 /\ c \notin {<<>>, <<".">>, <<".", ".">>}
             THEN IF next \in ds THEN [st |-> "EISDIR", dir |-> start, name |-> c]
                  ELSE [st |-> "ok", dir |-> start, name |-> c]
             ELSE Resolve(next, Tail(cs), ds)

File(dir, name, writer, state) ==
    [dir |-> dir, name |-> name, writer |-> writer, state |-> state]

\* what the environment does to one write
IoOutcomes == {"ok", "open_fails", "write_fails"}

\* what the environment does to the two writes of one quick_format: the same to both,
\* or a failure of one of them only
PairOutcomes == IoOutcomes \cup {"json_write_fails", "html_write_fails"}
JsonIo(io) ==
    CASE io = "json_write_fails" -> "write_fails"
      [] io = "html_write_fails" -> "ok"
      [] OTHER -> io
HtmlIo(io) ==
    CASE io = "html_write_fails" -> "write_fails"
      [] io = "json_write_fails" -> "ok"
      [] OTHER -> io

\* with open(start / path, "w") as f: <write content>.  open creates or truncates the file
\* before anything is written; a failure while writing (the disk, or a character
\* that cannot be encoded as UTF-8) leaves what was written so far
WriteFile(fs, ds, start, path, writer, encodable, io) ==
    CHOOSE out \in
        {LET others == {f \in fs : ~(f.dir = target.dir /\ f.name = target.name)}
         IN  IF target.st # "ok" \/ io = "open_fails"
             THEN [ok |-> FALSE, files |-> fs, dir |-> <<>>, name |-> <<>>]
             ELSE IF io = "write_fails" \/ ~encodable
             THEN [ok |-> FALSE, dir |-> <<>>, name |-> <<>>,
                   files |-> others \cup {File(target.dir, target.name, writer, "partial")}]
             ELSE [ok |-> TRUE, dir |-> target.dir, name |-> target.name,
                   files |-> others \cup {File(target.dir, target.name, writer, "complete")}] :
            target \in {Resolve(start, SplitPath(path), ds)}} : TRUE

----------------------------------------------------------------------------
(* _generate_html_content: the HTML report *)

\* html.escape(text, quote=False): the two quotes are left alone
EscapeCharNoQuote(ch) ==
    CASE ch = "&" -> "&amp;"
      [] ch = "<" -> "&lt;"
      [] ch = ">" -> "&gt;"
      [] OTHER -> ch

\* html.escape(text, quote=True): one entity per special character; an entity is
\* one symbol of the output
EscapeChar(ch) ==
    CASE ch = "&" -> "&amp;"
      [] ch = "<" -> "&lt;"
      [] ch = ">" -> "&gt;"
      [] ch = "\"" -> "&quot;"
      [] ch = "'" -> "&#x27;"
      [] OTHER -> ch
html_escape(t) == [i \in DOMAIN t |-> EscapeChar(t[i])]

\* f"{score:.3f}": only numbers have the format code f
Format3f(score) ==
    CASE score.k = "num" -> [st |-> "ok", s |-> <<ToString(score.n)>>]
      [] score.k = "nan" -> [st |-> "ok", s |-> <<"nan">>]
      [] score.k = "huge" -> [st |-> "OverflowError", s |-> <<>>]
      [] score.k = "str" -> [st |-> "ValueError", s |-> <<>>]
      [] OTHER -> [st |-> "TypeError", s |-> <<>>]

\* one <div class="result-item"> of the results section
ResultHtml(i, result) ==
    LET title_text == html_escape(PyStr(Get(result.title, Str(<<"untitled">>))))
        url == html_escape(PyStr(Get(result.url, Str(<<"#">>))))
        score == Format3f(Get(result.score, Num(0))).s
        content == html_escape(PyStr(Get(result.content, Str(<<>>))))
    IN  <<"<div class=result-item>", "[", ToString(i), "]", "<a href=">> \o url
          \o <<"target=_blank>">> \o title_text \o <<"</a>", "<span class=result-score>">>
          \o score \o <<"</span>", "<span class=result-url>">> \o url
          \o <<"</span>", "<div class=result-content>">> \o content \o <<"</div>", "</div>">>

FollowUpHtml(questions) ==
    IF questions = <<>> THEN <<>>
    ELSE <<"<h2>", "<ul class=follow-up-questions>">>
           \o Concat([i \in DOMAIN questions |->
                         <<"<li>">> \o html_escape(PyStr(questions[i])) \o <<"</li>">>])
           \o <<"</ul>">>

\* the exception the body raises, if any: len(None), .get on a non-mapping entry,
\* or the score's format
HtmlRaises(r) ==
    LET results == GetResults(r)
    IN  \/ results.k = "none"
        \/ \E i \in DOMAIN results.items :
              \/ results.items[i].k # "map"
              \/ Format3f(Get(results.items[i].score, Num(0))).st # "ok"

\* generation_time, the wall clock's reading, is the one symbol "generation_time"
GenerateHtmlContent(r, title) ==
    IF NotLoaded(r) THEN [st |-> "ok", doc |-> <<>>]
    ELSE IF HtmlRaises(r) THEN [st |-> "raised", doc |-> <<>>]
    ELSE LET query == html_escape(PyStr(Get(r.query, Str(<<"N/A">>))))
             response_time == PyStr(Get(r.response_time, Str(<<"N/A">>)))
             items == GetResults(r).items
             answer == html_escape(PyStr(Get(r.answer, Str(<<>>))))
             results_html == Concat([i \in DOMAIN items |-> ResultHtml(i, items[i])])
         IN  [st |-> "ok",
              doc |-> <<"<!DOCTYPE html>", "<title>">> \o html_escape(title)
                        \o <<"</title>", "<style>", "<h1>">> \o html_escape(title)
                        \o <<"</h1>", "<div class=meta-value>">> \o query
                        \o <<"</div>", "<div class=meta-value>">> \o response_time
                        \o <<"s", "</div>", "<div class=meta-value>", ToString(Len(items)),
                             "</div>", "<div class=meta-value>", "generation_time", "</div>">>
                        \o (IF answer # <<>>
                            THEN <<"<div class=ai-answer>">> \o answer \o <<"</div>">>
                            ELSE <<>>)
                        \o <<"<div class=results-section>">> \o results_html \o <<"</div>">>
                        \o FollowUpHtml(r.follow_up)
                        \o <<"<div class=footer>", "generation_time", "</div>", "</html>">>]

----------------------------------------------------------------------------
(* print_results and print_full *)

\* print_results raises on results: null (enumerate(None)), on a non-mapping entry
\* and on a score without the format code f
PrintResultsRaises(r) == ~NotLoaded(r) /\ HtmlRaises(r)

\* print_full = print_summary (len of the results), the answer, print_results, the
\* follow-up questions
PrintFullRaises(r) == ~NotLoaded(r) /\ (GetResults(r).k = "none" \/ PrintResultsRaises(r))

\* max_content_length when the caller gives none
DefaultContentLength == 150

\* the lines a print call wrote and the max_content_length it was given
Console(max_content_length, lines) ==
    [max_content_length |-> max_content_length, lines |-> lines]

\* content[:max_content_length] + "..." when the content is longer than the limit
Shorten(content, max_content_length) ==
    IF Len(content) > max_content_length
    THEN SubSeq(content, 1, max_content_length) \o <<"...">>
    ELSE content

\* the lines of one result: title, url, score, and the content when there is one
ResultLines(i, result, max_content_length) ==
    LET content == Get(result.content, Str(<<>>))
    IN  <<"[", ToString(i), "]">> \o PyStr(Get(result.title, Str(<<"untitled">>)))
          \o <<"url">> \o PyStr(Get(result.url, Str(<<"N/A">>)))
          \o <<"score">> \o Format3f(Get(result.score, Num(0))).s
          \o (IF Truthy(content)
              THEN <<"content">> \o Shorten(PyStr(content), max_content_length)
              ELSE <<>>)
          \o <<"-">>

\* the lines of the results up to the first one that raises
RECURSIVE ResultsLines(_, _, _)
ResultsLines(items, i, max_content_length) ==
    IF i > Len(items) \/ items[i].k # "map" THEN <<>>
    ELSE IF Format3f(Get(items[i].score, Num(0))).st # "ok"
    THEN <<"[", ToString(i), "]">> \o PyStr(Get(items[i].title, Str(<<"untitled">>)))
           \o <<"url">> \o PyStr(Get(items[i].url, Str(<<"N/A">>)))
    ELSE ResultLines(i, items[i], max_content_length)
           \o ResultsLines(items, i + 1, max_content_length)

\* the response with every content replaced by the summary that was printed
ShortenedResponse(r, max_content_length) ==
    Response(r.query, r.response_time, r.answer,
             ResultsList([i \in DOMAIN r.results.items |->
                 LET result == r.results.items[i]
                 IN  Result(result.title, result.url,
                            IF result.content.k = "str"
                            THEN Str(Shorten(result.content.s, max_content_length))
                            ELSE result.content,
                            result.score)]),
             r.follow_up)

\* a print_results that writes the summary back into the result it printed
PrintResultsInPlace(r, max_content_length) ==
    IF NotLoaded(r) THEN [raised |-> FALSE, lines |-> <<"no data">>, response |-> r]
    ELSE IF GetResults(r).k = "none" THEN [raised |-> TRUE, lines |-> <<>>, response |-> r]
    ELSE [raised |-> PrintResultsRaises(r),
          lines |-> ResultsLines(GetResults(r).items, 1, max_content_length),
          response |-> IF PrintResultsRaises(r) \/ r.results.k # "list" THEN r
                       ELSE ShortenedResponse(r, max_content_length)]

\* print_results(max_content_length): the summary of a content is a local value; the
\* response is only read
PrintResults(r, max_content_length) ==
    IF NotLoaded(r) THEN [raised |-> FALSE, lines |-> <<"no data">>, response |-> r]
    ELSE IF GetResults(r).k = "none" THEN [raised |-> TRUE, lines |-> <<>>, response |-> r]
    ELSE [raised |-> PrintResultsRaises(r),
          lines |-> ResultsLines(GetResults(r).items, 1, max_content_length),
          response |-> r]

\* print_full(max_content_length): print_summary, the answer when there is one,
\* print_results, the follow-up questions when there are any
PrintFull(r, max_content_length) ==
    IF NotLoaded(r) THEN [raised |-> FALSE, lines |-> <<"no data", "no data">>, response |-> r]
    ELSE LET head == <<"=", "query">> \o PyStr(Get(r.query, Str(<<"N/A">>)))
                       \o <<"time">> \o PyStr(Get(r.response_time, Str(<<"N/A">>)))
         IN  IF GetResults(r).k = "none"
             THEN [raised |-> TRUE, lines |-> head, response |-> r]
             ELSE LET results == PrintResults(r, max_content_length)
                      summary == head \o <<"results", ToString(Len(GetResults(r).items)), "=">>
                                   \o (IF Truthy(r.answer)
                                       THEN <<"answer">> \o PyStr(r.answer) \o <<"-">>
                                       ELSE <<>>)
                                   \o results.lines
                  IN  [raised |-> results.raised,
                       lines |-> IF results.raised \/ r.follow_up = <<>> THEN summary
                                 ELSE summary \o <<"questions">>
                                        \o Concat([i \in DOMAIN r.follow_up |->
                                                      <<ToString(i)>> \o PyStr(r.follow_up[i])]),
                       response |-> results.response]

----------------------------------------------------------------------------
(* save_json and save_html *)

Range(t) == {t[i] : i \in DOMAIN t}

\* a lone surrogate: text that json.loads yields and UTF-8 cannot encode
Surrogate == "U+D800"

SymbolsOf(v) == IF v.k = "str" THEN Range(v.s) ELSE {}
ResponseSymbols(r) ==
    SymbolsOf(r.query) \cup SymbolsOf(r.response_time) \cup SymbolsOf(r.answer)
      \cup UNION {SymbolsOf(r.follow_up[i]) : i \in DOMAIN r.follow_up}
      \cup UNION {SymbolsOf(r.results.items[i].title) \cup SymbolsOf(r.results.items[i].url)
                    \cup SymbolsOf(r.results.items[i].content)
                    \cup SymbolsOf(r.results.items[i].score) : i \in DOMAIN r.results.items}

\* the filename used when none is given, or the TypeError of clean_filename
AutoName(r, ts, ext) ==
    LET slug == CleanFilename(Get(r.query, Str(<<"s", "e", "a", "r", "c", "h">>)),
                              DefaultMaxLength)
    IN  [st |-> slug.st, name |-> GeneratedName(slug.s, ts, ext)]

\* json.dump(data, f, ensure_ascii=False, indent=2): the text of the file, as a
\* sequence of symbols (the insignificant white space is left out)
Quote == "\""
Backslash == "\\"

\* no escaping at all
JsonEscapeCharOff(ch) == <<ch>>

\* inside a string literal the quote and the backslash are escaped
JsonEscapeChar(ch) == IF ch \in {Quote, Backslash} THEN <<Backslash, ch>> ELSE <<ch>>

JsonString(t) == <<Quote>> \o Concat([i \in DOMAIN t |-> JsonEscapeChar(t[i])]) \o <<Quote>>

\* the numeral of the 401-digit integer
HugeNumeral == "10**400"

JsonValue(v) ==
    CASE v.k = "str" -> JsonString(v.s)
      [] v.k = "num" -> <<ToString(v.n)>>
      [] v.k = "nan" -> <<"NaN">>
      [] v.k = "huge" -> <<HugeNumeral>>
      [] v.k = "list" -> <<"[", "]">>
      [] OTHER -> <<"null">>

JsonMember(key, text) == JsonString(<<key>>) \o <<":">> \o text

\* the members or items, separated by commas
RECURSIVE JsonJoin(_)
JsonJoin(texts) ==
    IF texts = <<>> THEN <<>>
    ELSE IF Len(texts) = 1 THEN texts[1]
    ELSE texts[1] \o <<",">> \o JsonJoin(Tail(texts))

JsonObject(members) == <<"{">> \o JsonJoin(members) \o <<"}">>
JsonArray(items) == <<"[">> \o JsonJoin(items) \o <<"]">>

\* the keys of the structured document, in English:
\* "搜索信息", "AI答案", "搜索结果", "跟进问题"
SectionKeys == <<"search_info", "ai_answer", "search_results", "follow_up">>
\* "查询", "响应时间", "结果数量"
InfoKeys == <<"query", "response_time", "result_count">>
\* "序号", "标题", "链接", "评分", "内容摘要"
EntryKeys == <<"rank", "title", "url", "score", "summary">>

JsonEntry(entry) ==
    JsonObject(<<JsonMember(EntryKeys[1], <<ToString(entry.rank)>>),
                 JsonMember(EntryKeys[2], JsonValue(entry.title)),
                 JsonMember(EntryKeys[3], JsonValue(entry.url)),
                 JsonMember(EntryKeys[4], JsonValue(entry.score)),
                 JsonMember(EntryKeys[5], JsonValue(entry.content))>>)

\* the text of to_dict()
JsonDocument(doc) ==
    JsonObject(<<
        JsonMember(SectionKeys[1],
                   JsonObject(<<JsonMember(InfoKeys[1], JsonValue(doc.query)),
                                JsonMember(InfoKeys[2], JsonValue(doc.response_time)),
                                JsonMember(InfoKeys[3], <<ToString(doc.count)>>)>>)),
        JsonMember(SectionKeys[2], JsonValue(doc.answer)),
        JsonMember(SectionKeys[3],
                   JsonArray([i \in DOMAIN doc.results |-> JsonEntry(doc.results[i])])),
        JsonMember(SectionKeys[4],
                   JsonArray([i \in DOMAIN doc.follow_up |-> JsonValue(doc.follow_up[i])]))>>)

\* a member of the raw mapping is written only when its key is present
JsonOptional(key, v) == IF v.k = "missing" THEN <<>> ELSE <<JsonMember(key, JsonValue(v))>>

JsonRawResult(result) ==
    IF result.k # "map" THEN <<"null">>
    ELSE JsonObject(JsonOptional("title", result.title) \o JsonOptional("url", result.url)
                      \o JsonOptional("content", result.content)
                      \o JsonOptional("score", result.score))

\* the text of the raw response (formatted=False)
JsonRawResponse(r) ==
    JsonObject(
        JsonOptional("query", r.query) \o JsonOptional("response_time", r.response_time)
          \o JsonOptional("answer", r.answer)
          \o (CASE r.results.k = "missing" -> <<>>
                [] r.results.k = "none" -> <<JsonMember("results", <<"null">>)>>
                [] OTHER ->
                     <<JsonMember("results",
                                  JsonArray([i \in DOMAIN r.results.items |->
                                                JsonRawResult(r.results.items[i])]))>>)
          \o (IF r.follow_up = <<>> THEN <<>>
              ELSE <<JsonMember("follow_up_questions",
                                JsonArray([i \in DOMAIN r.follow_up |->
                                              JsonValue(r.follow_up[i])]))>>))

JsonDump(r, formatted) == IF formatted THEN JsonDocument(ToDict(r)) ELSE JsonRawResponse(r)

\* the outcome of save_json(filename, formatted) on the disk <<fs, ds>>
SaveJson(r, dir, fs, ds, filename, formatted, ts, io) ==
    IF NotLoaded(r)
    THEN [raised |-> FALSE, ok |-> FALSE, files |-> fs, dir |-> <<>>, name |-> <<>>,
          text |-> <<>>]
    ELSE LET auto == AutoName(r, ts, ".json")
         IN  IF ~Truthy(filename) /\ auto.st # "ok"
             THEN [raised |-> TRUE, ok |-> FALSE, files |-> fs, dir |-> <<>>, name |-> <<>>,
                   text |-> <<>>]
             ELSE LET name == PathName(IF Truthy(filename) THEN filename.s ELSE auto.name)
                  IN  IF formatted /\ ToDict(r).k = "raised"
                      THEN [raised |-> FALSE, ok |-> FALSE, files |-> fs,
                            dir |-> <<>>, name |-> <<>>, text |-> <<>>]
                      ELSE CHOOSE out \in
                              {[raised |-> FALSE, ok |-> w.ok, files |-> w.files,
                                dir |-> w.dir, name |-> w.name,
                                text |-> IF w.ok THEN JsonDump(r, formatted) ELSE <<>>] :
                                  w \in {WriteFile(fs, ds, dir, name, "save_json",
                                                   Surrogate \notin ResponseSymbols(r),
                                                   io)}} : TRUE

\* the title used when none is given
DefaultTitle(r) == <<"Tavily report - ">> \o PyStr(Get(r.query, Str(<<"unknown">>)))

\* the try block of save_html once the document `html` is generated: nothing is
\* opened when generating it raised
WriteHtml(html, fs, ds, dir, name, io) ==
    IF html.st # "ok"
    THEN [raised |-> FALSE, ok |-> FALSE, files |-> fs, dir |-> <<>>, name |-> <<>>,
          doc |-> <<>>]
    ELSE CHOOSE out \in
            {[raised |-> FALSE, ok |-> w.ok, files |-> w.files, dir |-> w.dir,
              name |-> w.name, doc |-> html.doc] :
                w \in {WriteFile(fs, ds, dir, name, "save_html",
                                 Surrogate \notin Range(html.doc), io)}} : TRUE

\* the outcome of save_html(filename, title), and the document generated
SaveHtml(r, dir, fs, ds, filename, title, ts, io) ==
    IF NotLoaded(r)
    THEN [raised |-> FALSE, ok |-> FALSE, files |-> fs, dir |-> <<>>, name |-> <<>>, doc |-> <<>>]
    ELSE LET auto == AutoName(r, ts, ".html")
         IN  IF ~Truthy(filename) /\ auto.st # "ok"
             THEN [raised |-> TRUE, ok |-> FALSE, files |-> fs, dir |-> <<>>,
                   name |-> <<>>, doc |-> <<>>]
             ELSE LET name == PathName(IF Truthy(filename) THEN filename.s ELSE auto.name)
                      text == IF Truthy(title) THEN title.s ELSE DefaultTitle(r)
                  IN  CHOOSE out \in {WriteHtml(html, fs, ds, dir, name, io) :
                                         html \in {GenerateHtmlContent(r, text)}} : TRUE

----------------------------------------------------------------------------
(* SearchClient: search, the history ledger, export_history *)

\* what client.search does: it raises, or it returns a response
SearchError ==
    [k |-> "error", query |-> Missing, response_time |-> Missing, answer |-> Missing,
     results |-> ResultsMissing, follow_up |-> <<>>]

\* self.client.search(query=query): what was asked, when, and what came back
Request(query, reply, ts) == [query |-> query, reply |-> reply, ts |-> ts]
NoRequest == Request(Missing, SearchError, "never")

HistoryEntry(query, timestamp, results_count, response_time) ==
    [query |-> query, timestamp |-> timestamp, results_count |-> results_count,
     response_time |-> response_time]

\* print(text) on a standard stream, whose error handler is strict: a lone surrogate
\* cannot be encoded
PrintRaises(v) == Surrogate \in SymbolsOf(v)

\* a search that puts its entry before the entries already there
SearchPrepending(history, query, reply, ts) ==
    IF PrintRaises(query) \/ reply.k # "map" \/ GetResults(reply).k = "none"
    THEN [raised |-> TRUE, history |-> history]
    ELSE [raised |-> FALSE,
          history |-> <<HistoryEntry(query, ts, Len(GetResults(reply).items),
                                     Get(reply.response_time, Str(<<"N/A">>)))>>
                         \o history]

\* a search that swallows the collaborator's failure and returns its reply
SearchSwallowing(history, query, reply, ts) ==
    IF PrintRaises(query) \/ GetResults(reply).k = "none"
    THEN [raised |-> TRUE, history |-> history]
    ELSE IF reply.k # "map" THEN [raised |-> FALSE, history |-> history]
    ELSE [raised |-> FALSE,
          history |-> Append(history,
                             HistoryEntry(query, ts, Len(GetResults(reply).items),
                                          Get(reply.response_time, Str(<<"N/A">>))))]

\* a search that records its entry before the collaborator has answered
SearchEager(history, query, reply, ts) ==
    IF PrintRaises(query) THEN [raised |-> TRUE, history |-> history]
    ELSE IF reply.k # "map" \/ GetResults(reply).k = "none"
    THEN [raised |-> TRUE,
          history |-> Append(history, HistoryEntry(query, ts, 0, Str(<<"N/A">>)))]
    ELSE [raised |-> FALSE,
          history |-> Append(history,
                             HistoryEntry(query, ts, Len(GetResults(reply).items),
                                          Get(reply.response_time, Str(<<"N/A">>))))]

\* SearchClient.search: the query is printed, then the entry is appended after the
\* collaborator returned; a failed print, the collaborator's
\* failure, and len() of a null results, are re-raised with the ledger as it was
Search(history, query, reply, ts) ==
    IF PrintRaises(query) \/ reply.k # "map" \/ GetResults(reply).k = "none"
    THEN [raised |-> TRUE, history |-> history]
    ELSE [raised |-> FALSE,
          history |-> Append(history,
                             HistoryEntry(query, ts, Len(GetResults(reply).items),
                                          Get(reply.response_time, Str(<<"N/A">>))))]

\* config.results_save_path
ConfigResultsPath == << <<"w">>, <<"r">> >>

HistorySymbols(history) ==
    UNION {SymbolsOf(history[i].query) \cup SymbolsOf(history[i].response_time) :
              i \in DOMAIN history}

\* f"search_history_{format_timestamp()}.json"
HistoryName(ts) == <<"search_history_", ts, ".json">>

\* json.dump(self.search_history, f, ensure_ascii=False, indent=2)
HistoryKeys == <<"query", "timestamp", "results_count", "response_time">>

JsonHistoryEntry(entry) ==
    JsonObject(<<JsonMember(HistoryKeys[1], JsonValue(entry.query)),
                 JsonMember(HistoryKeys[2], JsonString(<<entry.timestamp>>)),
                 JsonMember(HistoryKeys[3], <<ToString(entry.results_count)>>),
                 JsonMember(HistoryKeys[4], JsonValue(entry.response_time))>>)

\* the entries written last first
HistoryTextReversed(history) ==
    JsonArray([i \in DOMAIN history |-> JsonHistoryEntry(history[Len(history) + 1 - i])])

HistoryText(history) == JsonArray([i \in DOMAIN history |-> JsonHistoryEntry(history[i])])

\* export_history(filename): the path is results_save_path + "/" + filename
ExportHistory(history, fs, ds, filename, ts, io) ==
    IF history = <<>> THEN [ok |-> FALSE, files |-> fs, dir |-> <<>>, name |-> <<>>]
    ELSE WriteFile(fs, ds, ConfigResultsPath,
                   IF Truthy(filename) THEN filename.s ELSE HistoryName(ts),
                   "export_history", Surrogate \notin HistorySymbols(history), io)

----------------------------------------------------------------------------
(* The calls on a formatter *)

\* the flags save_json, save_html and print_progress / print_output of a call
Options(save_json_opt, save_html_opt, print_progress) ==
    [save_json |-> save_json_opt, save_html |-> save_html_opt,
     print_progress |-> print_progress]
DefaultOptions == Options(TRUE, FALSE, TRUE)
NoOptions == Options(FALSE, FALSE, FALSE)

\* a call's record: its name, whether an exception escaped it, what it returned
\* ("None", "self", "value", or "path" with the path's directory and name), the
\* filename and title it was given, its flags, and what the environment did to its
\* writes
CallFull(op, raised, ret, dir, name, filename, title, opts, io) ==
    [op |-> op, raised |-> raised, ret |-> ret, dir |-> dir, name |-> name,
     filename |-> filename, title |-> title, opts |-> opts, io |-> io]
CallWith(op, raised, ret, dir, name, filename, title) ==
    CallFull(op, raised, ret, dir, name, filename, title, NoOptions, "none")
Call(op, raised, ret, dir, name) == CallWith(op, raised, ret, dir, name, Missing, Missing)
NoCall == Call("none", FALSE, "None", <<>>, <<>>)

\* load_response(response): replaces the response, returns self
load_response(r) ==
    /\ response' = r
    /\ last' = Call("load_response", FALSE, "self", <<>>, <<>>)
    /\ UNCHANGED <<save_path, diskVars, outVars, clientVars, batchVars>>

analyze_quality ==
    /\ \E report \in {AnalyzeQuality(response)} :
          /\ quality' = report
          /\ last' = Call("analyze_quality", report.k = "raised", "value", <<>>, <<>>)
    /\ UNCHANGED <<fmtVars, diskVars, structured, html_doc, json_doc, console, clientVars,
                 batchVars>>

to_dict ==
    /\ \E formatted \in {ToDict(response)} :
          /\ structured' = formatted
          /\ last' = Call("to_dict", formatted.k = "raised",
                          IF formatted.k = "None" THEN "None" ELSE "value", <<>>, <<>>)
    /\ UNCHANGED <<fmtVars, diskVars, quality, html_doc, json_doc, console, clientVars,
                 batchVars>>

print_results(max_content_length) ==
    \E out \in {PrintResults(response, max_content_length)} :
        /\ response' = out.response
        /\ console' = Console(max_content_length, out.lines)
        /\ last' = Call("print_results", out.raised, "None", <<>>, <<>>)
        /\ UNCHANGED <<save_path, diskVars, quality, structured, html_doc, json_doc,
                       clientVars, batchVars>>

print_full(max_content_length) ==
    \E out \in {PrintFull(response, max_content_length)} :
        /\ response' = out.response
        /\ console' = Console(max_content_length, out.lines)
        /\ last' = Call("print_full", out.raised, "None", <<>>, <<>>)
        /\ UNCHANGED <<save_path, diskVars, quality, structured, html_doc, json_doc,
                       clientVars, batchVars>>

save_json(filename, formatted, ts, io) ==
    \E out \in {SaveJson(response, save_path, files, dirs, filename, formatted, ts, io)} :
        /\ files' = out.files
        /\ last' = CallWith("save_json", out.raised, IF out.ok THEN "path" ELSE "None",
                            out.dir, out.name, filename, Missing)
        /\ json_doc' = IF out.ok THEN out.text ELSE json_doc
        /\ UNCHANGED <<fmtVars, dirs, filename_arg, quality, structured, html_doc, console,
                       clientVars, batchVars>>

save_html(filename, title, ts, io) ==
    \E out \in {SaveHtml(response, save_path, files, dirs, filename, title, ts, io)} :
        /\ files' = out.files
        /\ html_doc' = out.doc
        /\ last' = CallWith("save_html", out.raised, IF out.ok THEN "path" ELSE "None",
                            out.dir, out.name, filename, title)
        /\ UNCHANGED <<fmtVars, dirs, filename_arg, quality, structured, json_doc, console,
                       clientVars, batchVars>>

\* what the list returned earlier holds once the ledger holds `history`
Held(history) == IF shared THEN history ELSE snapshot

search(query, reply, ts) ==
    \E out \in {Search(search_history, query, reply, ts)} :
        /\ search_history' = out.history
        /\ request' = Request(query, reply, ts)
        /\ snapshot' = Held(out.history)
        /\ last' = Call("search", out.raised, "value", <<>>, <<>>)
        /\ UNCHANGED <<fmtVars, diskVars, outVars, shared, history_doc, batchVars>>

\* a get_search_history that hands out the ledger's own list
GetSearchHistoryShared(history) == [items |-> history, shared |-> TRUE]

\* get_search_history: self.search_history.copy(), a new list of the same entries
GetSearchHistory(history) == [items |-> history, shared |-> FALSE]

get_search_history ==
    /\ \E out \in {GetSearchHistory(search_history)} :
          /\ snapshot' = out.items
          /\ shared' = out.shared
    /\ last' = Call("get_search_history", FALSE, "value", <<>>, <<>>)
    /\ UNCHANGED <<fmtVars, diskVars, outVars, search_history, request, history_doc, batchVars>>

\* a clear that only drops the oldest entry
clear_history_oldest ==
    /\ search_history' = IF search_history = <<>> THEN <<>> ELSE Tail(search_history)
    /\ snapshot' = Held(search_history')
    /\ last' = Call("clear_history", FALSE, "None", <<>>, <<>>)
    /\ UNCHANGED <<fmtVars, diskVars, outVars, shared, request, history_doc, batchVars>>

clear_history ==
    /\ search_history' = <<>>
    /\ snapshot' = Held(search_history')
    /\ last' = Call("clear_history", FALSE, "None", <<>>, <<>>)
    /\ UNCHANGED <<fmtVars, diskVars, outVars, shared, request, history_doc, batchVars>>

\* the caller appends an entry to the list get_search_history returned
caller_appends(entry) ==
    /\ snapshot' = Append(snapshot, entry)
    /\ search_history' = IF shared THEN snapshot' ELSE search_history
    /\ last' = Call("caller_appends", FALSE, "None", <<>>, <<>>)
    /\ UNCHANGED <<fmtVars, diskVars, outVars, shared, request, history_doc, batchVars>>

\* the caller removes the last entry of the list get_search_history returned
caller_removes ==
    /\ snapshot # <<>>
    /\ snapshot' = SubSeq(snapshot, 1, Len(snapshot) - 1)
    /\ search_history' = IF shared THEN snapshot' ELSE search_history
    /\ last' = Call("caller_removes", FALSE, "None", <<>>, <<>>)
    /\ UNCHANGED <<fmtVars, diskVars, outVars, shared, request, history_doc, batchVars>>

export_history(filename, ts, io) ==
    \E out \in {ExportHistory(search_history, files, dirs, filename, ts, io)} :
        /\ files' = out.files
        /\ last' = CallWith("export_history", FALSE, IF out.ok THEN "path" ELSE "None",
                            out.dir, out.name, filename, Missing)
        /\ history_doc' = IF out.ok THEN HistoryText(search_history) ELSE history_doc
        /\ UNCHANGED <<fmtVars, dirs, filename_arg, outVars, search_history, snapshot, shared,
                       request, batchVars>>

----------------------------------------------------------------------------
(* batch_search *)

\* a quick_format that gives up after a JSON save that returned None
QuickFormatGivingUp(r, dir, fs, ds, opts, ts, io) ==
    CHOOSE out \in
        {IF j.raised THEN [raised |-> TRUE, files |-> j.files]
         ELSE IF opts.save_html /\ (~opts.save_json \/ j.ok)
              THEN CHOOSE saved \in
                      {[raised |-> h.raised, files |-> h.files] :
                          h \in {SaveHtml(r, dir, j.files, ds, Missing, Missing, ts,
                                          HtmlIo(io))}} : TRUE
              ELSE [raised |-> FALSE, files |-> j.files] :
            j \in {IF opts.save_json
                   THEN SaveJson(r, dir, fs, ds, Missing, TRUE, ts, JsonIo(io))
                   ELSE [raised |-> FALSE, ok |-> TRUE, files |-> fs]}} : TRUE

\* quick_format(response, save_json, save_html, print_output=False): the formatter is
\* constructed, then saved under generated names; only clean_filename's TypeError
\* escapes a save
QuickFormat(r, dir, fs, ds, opts, ts, io) ==
    CHOOSE out \in
        {IF j.raised THEN [raised |-> TRUE, files |-> j.files]
         ELSE IF opts.save_html
              THEN CHOOSE saved \in
                      {[raised |-> h.raised, files |-> h.files] :
                          h \in {SaveHtml(r, dir, j.files, ds, Missing, Missing, ts,
                                          HtmlIo(io))}} : TRUE
              ELSE [raised |-> FALSE, files |-> j.files] :
            j \in {IF opts.save_json
                   THEN SaveJson(r, dir, fs, ds, Missing, TRUE, ts, JsonIo(io))
                   ELSE [raised |-> FALSE, files |-> fs]}} : TRUE

\* the quality summary line reads two keys of analyze_quality(): it raises when
\* analyze_quality raises, and when the report is the empty mapping
SummaryRaises(r) == AnalyzeQuality(r).k \in {"raised", "empty"}

Outcome(topic, reply, status) == [topic |-> topic, reply |-> reply, status |-> status]

\* one pass of the loop over topic: "abort" when the progress line, printed outside the
\* inner try, raises; "failed" when the inner except is taken; "completed" otherwise.
\* The formatter is appended before the quality summary is printed.
BatchIteration(topic, reply, history, dir, fs, ds, opts, ts, io) ==
    IF opts.print_progress /\ PrintRaises(topic)
    THEN [status |-> "abort", appended |-> FALSE, history |-> history, files |-> fs]
    ELSE CHOOSE out \in
            {IF s.raised
             THEN [status |-> "failed", appended |-> FALSE, history |-> s.history,
                   files |-> fs]
             ELSE CHOOSE done \in
                     {[status |-> IF q.raised \/ (opts.print_progress /\ SummaryRaises(reply))
                                  THEN "failed" ELSE "completed",
                       appended |-> ~q.raised, history |-> s.history, files |-> q.files] :
                         q \in {QuickFormat(reply, dir, fs, ds, opts, ts, io)}} : TRUE :
                s \in {Search(history, topic, reply, ts)}} : TRUE

\* batch_search(topics, save_json, save_html, print_progress) up to its loop: a single
\* string is one topic, no topic returns [] at once, a new SearchClient is made
batch_search(given, opts) ==
    /\ pc = "idle"
    /\ topics' = IF given.k = "str" THEN <<Str(given.s)>> ELSE given.items
    /\ options' = opts
    /\ outcomes' = <<>>
    /\ idx' = 0
    /\ formatters' = <<>>
    /\ search_history' = <<>>
    /\ shared' = FALSE
    /\ pc' = IF topics' = <<>> THEN "done" ELSE "loop"
    /\ last' = Call("batch_search", FALSE, "value", <<>>, <<>>)
    /\ UNCHANGED <<fmtVars, diskVars, outVars, snapshot, request, history_doc>>

\* one pass of the loop; after the last pass, or when the outer except is taken (which
\* returns []), batch_search returns; at "done" formatters is the list returned
batch_iteration(reply, ts, io) ==
    /\ pc = "loop"
    /\ idx < Len(topics)
    /\ \E out \in {BatchIteration(topics[idx + 1], reply, search_history, save_path,
                                  files, dirs, options, ts, io)} :
          /\ search_history' = out.history
          /\ request' = IF out.status = "abort" THEN request
                         ELSE Request(topics[idx + 1], reply, ts)
          /\ files' = out.files
          /\ IF out.status = "abort"
             THEN /\ formatters' = <<>>
                  /\ pc' = "done"
                  /\ UNCHANGED <<idx, outcomes>>
             ELSE /\ formatters' = IF out.appended THEN Append(formatters, reply)
                                   ELSE formatters
                  /\ outcomes' = Append(outcomes, Outcome(topics[idx + 1], reply, out.status))
                  /\ idx' = idx + 1
                  /\ pc' = IF idx + 1 = Len(topics) THEN "done" ELSE "loop"
    /\ UNCHANGED <<fmtVars, dirs, filename_arg, outVars, snapshot, shared, history_doc, topics,
                   options, last>>

----------------------------------------------------------------------------
(* Bounded inputs *)

MaxResults == 2

SeqsUpTo(S, n) == UNION {[1..m -> S] : m \in 0..n}

Title == Str(<<"t">>)
Url == Str(<<"u">>)
Content == Str(<<"c">>)

\* raw scores: numbers below, inside, on the thresholds of and above [0,1], texts,
\* null, absent, NaN, an integer too large for a float, a list
RawScores ==
    {Num(n) : n \in {-500, 30, 40, 65, 70, 85, 90, 150}}
      \cup {Missing, None, Str(<<"abc">>), Str(<<"0.65">>), NaN, HugeInt, ListVal}

\* the result {} of the tests' malformed response
EmptyResult == Result(Missing, Missing, Missing, Missing)

QualityItems ==
    {Result(Title, Url, Content, sc) : sc \in RawScores} \cup {NotAMapping, EmptyResult}

QualityResults ==
    {ResultsMissing, ResultsNone}
      \cup {ResultsList(items) : items \in SeqsUpTo(QualityItems, MaxResults)}

QualityResponses ==
    {Response(m[1], m[2], Missing, rs, <<>>) :
        m \in {<<Str(<<"x">>), Num(120)>>, <<None, Missing>>, <<Missing, Missing>>},
        rs \in QualityResults}
      \cup {NoResponse}

ReloadResponses ==
    {NoResponse,
     Response(Str(<<"x">>), Num(120), Missing,
              ResultsList(<<Result(Title, Url, Content, Num(90)),
                            Result(Title, Url, Content, Num(30))>>), <<>>)}

Cwd == << <<"w">> >>
ResultsDir == ConfigResultsPath

\* the formatter's directory exists and is empty
InitDisk ==
    /\ save_path = ResultsDir
    /\ dirs = {<<>>, Cwd, ResultsDir}
    /\ files = {}

\* nothing has been called yet
InitIdle ==
    /\ last = NoCall
    /\ quality = NoReport
    /\ structured = NoDocument
    /\ html_doc = <<>>
    /\ json_doc = <<>>
    /\ console = Console(DefaultContentLength, <<>>)
    /\ search_history = <<>>
    /\ snapshot = <<>>
    /\ shared = FALSE
    /\ history_doc = <<>>
    /\ request = NoRequest
    /\ topics = <<>>
    /\ options = DefaultOptions
    /\ outcomes = <<>>
    /\ idx = 0
    /\ formatters = <<>>
    /\ pc = "idle"

InitRest == InitDisk /\ InitIdle

----------------------------------------------------------------------------
(* SpecQuality: a formatter constructed on any response, analysed and converted *)

InitQuality ==
    /\ response \in QualityResponses
    /\ filename_arg = Missing
    /\ InitRest

NextQuality ==
    \/ \E r \in ReloadResponses : load_response(r)
    \/ analyze_quality
    \/ to_dict

SpecQuality == InitQuality /\ [][NextQuality]_vars

----------------------------------------------------------------------------
(* Claims about analyze_quality and to_dict *)

\* the results the loaded response lists (none when results is absent or null)
ListedResults == IF response.results.k = "list" THEN response.results.items ELSE <<>>

Analysed == last.op = "analyze_quality" /\ quality.k = "report"

\* C1: whenever analyze_quality returns a report, every result is counted in exactly
\* one bucket: high iff its coerced score is above 0.7, medium iff it lies in
\* [0.4, 0.7] with both ends included, low iff it is below 0.4; the three buckets
\* add up to the reported result count, which is the number of results.
C1_BucketsPartitionResults ==
    Analysed =>
        /\ quality.count = Len(ListedResults)
        /\ Len(quality.scores) = quality.count
        /\ quality.high = Cardinality({i \in DOMAIN quality.scores : quality.scores[i] > 70})
        /\ quality.medium = Cardinality({i \in DOMAIN quality.scores :
                                            40 <= quality.scores[i] /\ quality.scores[i] <= 70})
        /\ quality.low = Cardinality({i \in DOMAIN quality.scores : quality.scores[i] < 40})
        /\ quality.high + quality.medium + quality.low = quality.count

\* two results scored exactly 0.4 and 0.7 were analysed: both are medium
C1_Witness ==
    /\ Analysed
    /\ quality.scores = <<40, 70>>
    /\ quality.medium = 2

\* the score the claim promises for a raw score: 0.0 for a null, absent or unparsable
\* one, otherwise the parsed number clamped into [0,1] (a NaN is not covered)
ClaimedScore(raw) ==
    LET parsed == CASE raw.k = "num" -> <<raw.n>>
                    [] raw.k = "str" /\ Len(raw.s) = 1 /\ raw.s[1] \in Numerals ->
                          <<NumeralValue(raw.s[1])>>
                    [] OTHER -> <<>>
    IN  IF parsed = <<>> THEN 0
        ELSE IF parsed[1] < 0 THEN 0
        ELSE IF parsed[1] > 100 THEN 100
        ELSE parsed[1]

AllMappings == \A i \in DOMAIN ListedResults : ListedResults[i].k = "map"

\* C2: score coercion: for a response whose results are mappings, analyze_quality
\* turns every raw score that is null or cannot be parsed as a number into 0.0, a
\* parsed number below 0 into 0.0, one above 1 into 1.0, and keeps one in [0,1].
C2_ScoreCoercion ==
    (last.op = "analyze_quality" /\ ListedResults # <<>> /\ AllMappings) =>
        /\ quality.k = "report"
        /\ \A i \in DOMAIN ListedResults :
              ListedResults[i].score.k # "nan" =>
                  quality.scores[i] = ClaimedScore(ListedResults[i].score)

\* C3: totality: analyze_quality and to_dict never raise, whatever the response holds.
C3_NeverRaises ==
    last.op \in {"analyze_quality", "to_dict"} => ~last.raised

----------------------------------------------------------------------------
(* SpecHtml: a formatter constructed on a response with markup in one field, or with
   a malformed score, rendered to HTML and to the console *)

MaxText == 2

\* the characters html.escape replaces, and a letter ("s" spells the tag name)
SpecialChars == {"&", "<", ">", "\"", "'"}
HtmlChars == SpecialChars \cup {"s"}
ScriptTag == <<"<", "s", ">">>

Payloads == SeqsUpTo(HtmlChars, MaxText) \cup {ScriptTag}
Fields == {"query", "response_time", "answer", "title", "url", "content", "follow_up"}

\* the base response with the text p in one field
Place(field, p) ==
    Response(IF field = "query" THEN Str(p) ELSE Str(<<"x">>),
             IF field = "response_time" THEN Str(p) ELSE Num(120),
             IF field = "answer" THEN Str(p) ELSE Missing,
             ResultsList(<<Result(IF field = "title" THEN Str(p) ELSE Title,
                                  IF field = "url" THEN Str(p) ELSE Url,
                                  IF field = "content" THEN Str(p) ELSE Content,
                                  Num(80))>>),
             IF field = "follow_up" THEN <<Str(p)>> ELSE <<>>)

HtmlResponses ==
    {Place(f, p) : f \in Fields, p \in Payloads}
      \cup {Response(Str(<<"x">>), Num(120), Missing, ResultsList(<<it>>), <<>>) :
               it \in QualityItems}
      \cup {Response(Str(<<"x">>), Num(120), None, ResultsNone, <<>>), NoResponse}

HtmlTitles == {Missing, Str(<<"s">>), Str(<<"'">>), Str(ScriptTag)}

InitHtml ==
    /\ response \in HtmlResponses
    /\ filename_arg = Missing
    /\ InitRest

NextHtml ==
    \/ \E title \in HtmlTitles, ts \in Timestamps :
          save_html(Str(<<"a">>), title, ts, "ok")
    \/ print_results(DefaultContentLength)
    \/ print_full(DefaultContentLength)

SpecHtml == InitHtml /\ [][NextHtml]_vars

----------------------------------------------------------------------------
(* Claims about the HTML report and the console *)

\* the loaded response lists results that are all mappings with a finite number, a
\* text or null as score, and at least one score is a non-numeric text or null
HasMalformedScore ==
    /\ ~NotLoaded(response)
    /\ ListedResults # <<>> /\ AllMappings
    /\ \A i \in DOMAIN ListedResults : ListedResults[i].score.k \in {"num", "str", "none"}
    /\ \E i \in DOMAIN ListedResults :
          \/ ListedResults[i].score.k = "none"
          \/ ListedResults[i].score.k = "str" /\ ListedResults[i].score.s = <<"abc">>

\* C4: malformed scores are absorbed in rendering: with a result whose score is a
\* non-numeric text or null, save_html still writes the artifact and returns its
\* path, and print_results / print_full complete without raising.
C4_RenderingAbsorbsBadScore ==
    HasMalformedScore =>
        /\ last.op = "save_html" =>
              /\ ~last.raised /\ last.ret = "path"
              /\ \E f \in files : f.dir = last.dir /\ f.name = last.name
        /\ last.op \in {"print_results", "print_full"} => ~last.raised

Rendered == last.op = "save_html" /\ last.ret = "path"

\* the escaped form the claim requires, written out per character
Escaped(t) ==
    [i \in DOMAIN t |->
        CASE t[i] = "&" -> "&amp;"
          [] t[i] = "<" -> "&lt;"
          [] t[i] = ">" -> "&gt;"
          [] t[i] = "\"" -> "&quot;"
          [] t[i] = "'" -> "&#x27;"
          [] OTHER -> t[i]]

RawSpecials(t) == Cardinality({i \in DOMAIN t : t[i] \in SpecialChars})

TextOf(v) == IF v.k = "str" THEN v.s ELSE <<>>

\* C5: in every report save_html writes, the query, each result's title, url and
\* content, the answer, each follow-up question and the report title appear in
\* escaped form (& < > " ' replaced), and none of them contributes an unescaped
\* special character: the only ones in the document are those of response_time,
\* so no <script> tag of these fields appears literally.
C5_FieldsEscaped ==
    Rendered =>
        /\ RawSpecials(html_doc) = RawSpecials(TextOf(response.response_time))
        /\ ~Occurs(ScriptTag, TextOf(response.response_time)) => ~Occurs(ScriptTag, html_doc)
        /\ Occurs(Escaped(TextOf(response.query)), html_doc)
        /\ Occurs(Escaped(TextOf(response.answer)), html_doc)
        /\ Occurs(Escaped(TextOf(last.title)), html_doc)
        /\ \A i \in DOMAIN response.follow_up :
              Occurs(Escaped(TextOf(response.follow_up[i])), html_doc)
        /\ \A i \in DOMAIN ListedResults :
              /\ Occurs(Escaped(TextOf(ListedResults[i].title)), html_doc)
              /\ Occurs(Escaped(TextOf(ListedResults[i].url)), html_doc)
              /\ Occurs(Escaped(TextOf(ListedResults[i].content)), html_doc)

\* a report was written for a result whose content is a script tag: it holds the
\* tag in escaped form only
C5_Witness ==
    /\ Rendered
    /\ ListedResults # <<>> /\ ListedResults[1].content = Str(ScriptTag)
    /\ Occurs(<<"&lt;", "s", "&gt;">>, html_doc)
    /\ ~Occurs(ScriptTag, html_doc)

\* C6: every data-derived string of the report is escaped, response_time included:
\* the document holds no unescaped special character.
C6_ResponseTimeEscaped ==
    Rendered => RawSpecials(html_doc) = 0

----------------------------------------------------------------------------
(* SpecFiles: a formatter whose caller saves artifacts under a filename of its own
   or under the generated one, while the disk may fail *)

MaxName == 4
MaxFiles == 1

PathChars == {"/", ".", "a"}
Filenames == {Str(t) : t \in SeqsUpTo(PathChars, MaxName)}

BaseResponse ==
    Response(Str(<<"a", " ", "<">>), Num(120), Missing,
             ResultsList(<<Result(Title, Url, Content, Num(80))>>), <<>>)
\* a result content with a lone surrogate, as json.loads('"\ud800"') yields
SurrogateResponse ==
    Response(Str(<<"a">>), Num(120), Missing,
             ResultsList(<<Result(Title, Url, Str(<<Surrogate>>), Num(80))>>), <<>>)

FileResponses == {BaseResponse, SurrogateResponse, NoResponse}

InitFiles ==
    /\ response \in FileResponses
    /\ filename_arg \in Filenames
    /\ InitRest

NextFiles ==
    \/ \E fn \in {filename_arg, Missing}, io \in IoOutcomes :
          save_json(fn, TRUE, Now, io) /\ Cardinality(files') <= MaxFiles
    \/ \E fn \in {filename_arg, Missing}, io \in IoOutcomes :
          save_html(fn, Missing, Now, io) /\ Cardinality(files') <= MaxFiles

SpecFiles == InitFiles /\ [][NextFiles]_vars

----------------------------------------------------------------------------
(* SpecLedger: a search client that searches, reads, clears and exports its history *)

MaxHistory == 2

Queries == {Str(<<"a">>), Str(<<"x">>)}
Replies ==
    {SearchError, BaseResponse,
     Response(Str(<<"a">>), Missing, Missing, ResultsNone, <<>>)}

\* filenames: plain, and with directory components
LedgerFilenames ==
    {Str(<<"a">>), Str(<<".", ".", "/", "a">>), Str(<<".", ".">>), Str(<<"x", "/", "a">>)}

InitLedger ==
    /\ response = NoResponse
    /\ filename_arg \in LedgerFilenames
    /\ InitRest

NextLedger ==
    \/ \E q \in Queries, reply \in Replies :
          Len(search_history) < MaxHistory /\ search(q, reply, Now)
    \/ get_search_history
    \/ clear_history
    \/ \E fn \in {filename_arg, Missing}, io \in IoOutcomes :
          export_history(fn, Now, io) /\ Cardinality(files') <= MaxFiles

SpecLedger == InitLedger /\ [][NextLedger]_vars

----------------------------------------------------------------------------
(* Claims about the artifact writers *)

SaveWriters == {"save_json", "save_html"}
Saved == last.op \in SaveWriters /\ last.ret = "path"

\* C7: filename safety: every file save_json or save_html creates or overwrites lies
\* directly in the save directory, and for a caller-supplied filename its name is
\* the filename's final path segment (the last component that is neither empty nor
\* "."), which holds no "/".
C7_SavesStayInSaveDirectory ==
    /\ \A f \in files : f.writer \in SaveWriters => f.dir = save_path
    /\ (Saved /\ Truthy(last.filename)) =>
          /\ last.dir = save_path
          /\ "/" \notin Range(last.name)
          /\ LET cs == SplitPath(last.filename.s)
             IN  \E i \in DOMAIN cs :
                    /\ cs[i] = last.name
                    /\ \A j \in (i + 1)..Len(cs) : cs[j] \in {<<>>, <<".">>}

\* save_json was given "../a" and wrote <save_path>/a
C7_Witness ==
    /\ Saved
    /\ last.filename = Str(<<".", ".", "/", "a">>)
    /\ last.dir = save_path /\ last.name = <<"a">>
    /\ \E f \in files : f.dir = save_path /\ f.name = <<"a">> /\ f.state = "complete"

\* C8: export_history writes the history file only inside the configured results
\* directory, whatever directory components the supplied filename has.
C8_ExportStaysInResultsDirectory ==
    \A f \in files : f.writer = "export_history" => f.dir = ConfigResultsPath

\* C10: artifact writes are all-or-nothing: a file of save_json or save_html on disk is
\* complete, never partial, empty or truncated, and a returned path names a complete
\* file.
C10_WritesAllOrNothing ==
    /\ \A f \in files : f.writer \in SaveWriters => f.state = "complete"
    /\ Saved => \E f \in files :
                   f.dir = last.dir /\ f.name = last.name /\ f.state = "complete"

----------------------------------------------------------------------------
(* SpecBatch: batch_search over a few topics, with a collaborator that answers, fails
   or answers malformed *)

MaxTopics == 3

BatchQueries == {Str(<<"a">>), Str(<<"x">>), Str(<<Surrogate>>)}
Given(kind, text, items) == [k |-> kind, s |-> text, items |-> items]
BatchInputs ==
    {Given("str", q.s, <<>>) : q \in BatchQueries}
      \cup {Given("list", <<>>, t) : t \in SeqsUpTo(BatchQueries, MaxTopics)}

HugeScoreResponse ==
    Response(Str(<<"x">>), Num(120), Missing,
             ResultsList(<<Result(Title, Url, Content, HugeInt)>>), <<>>)
NumberQueryResponse ==
    Response(Num(5), Num(120), Missing,
             ResultsList(<<Result(Title, Url, Content, Num(80))>>), <<>>)

BatchReplies ==
    {SearchError, BaseResponse, HugeScoreResponse, NumberQueryResponse, EmptyMapping}

BatchOptions == {Options(j, FALSE, p) : j \in BOOLEAN, p \in BOOLEAN}
                   \cup {Options(FALSE, TRUE, TRUE)}

InitBatch ==
    /\ response = NoResponse
    /\ filename_arg = Missing
    /\ InitRest

NextBatch ==
    \/ \E given \in BatchInputs, opts \in BatchOptions : batch_search(given, opts)
    \/ \E reply \in BatchReplies, io \in {"ok", "write_fails"} :
          batch_iteration(reply, Now, io)

SpecBatch == InitBatch /\ [][NextBatch]_vars

Completed(o) == o.status = "completed"

\* C9: batch isolation: when batch_search returns, every query was handled, in input
\* order, whatever failed on the way, and the list returned holds exactly the
\* formatters of the queries whose handling did not fail, in input order.
C9_BatchIsolation ==
    pc = "done" =>
        /\ Len(outcomes) = Len(topics)
        /\ \A i \in DOMAIN outcomes : outcomes[i].topic = topics[i]
        /\ LET succeeded == SelectSeq(outcomes, Completed)
           IN  formatters = [i \in DOMAIN succeeded |-> succeeded[i].reply]

----------------------------------------------------------------------------
(* SpecPersist: a formatter on a well-formed or malformed response that is saved,
   with or without a filename, on a disk that may fail, then analysed and converted *)

TextScoreResponse ==
    Response(Str(<<"a">>), Num(120), Missing,
             ResultsList(<<Result(Title, Url, Content, Str(<<"abc">>))>>), <<>>)
NullResultsResponse == Response(Str(<<"a">>), Num(120), Missing, ResultsNone, <<>>)

PersistResponses ==
    {BaseResponse, SurrogateResponse, NumberQueryResponse, HugeScoreResponse,
     TextScoreResponse, NullResultsResponse, EmptyMapping}

PersistFilenames ==
    {Str(<<"a">>), Str(<<".", ".", "/", "a">>), Str(<<".", ".">>), Str(<<"x", "/", "a">>)}

InitPersist ==
    /\ response \in PersistResponses
    /\ filename_arg \in PersistFilenames
    /\ InitRest

NextPersist ==
    \/ \E fn \in {filename_arg, Missing}, formatted \in BOOLEAN, io \in IoOutcomes :
          save_json(fn, formatted, Now, io) /\ Cardinality(files') <= MaxFiles
    \/ \E fn \in {filename_arg, Missing}, io \in IoOutcomes :
          save_html(fn, Missing, Now, io) /\ Cardinality(files') <= MaxFiles
    \/ analyze_quality
    \/ to_dict

SpecPersist == InitPersist /\ [][NextPersist]_vars

\* C11: a failure while persisting is reported, never raised: every call of save_json
\* or save_html, with a filename or without, returns the path or None with no
\* exception escaping, and leaves the loaded response, and so what analyze_quality
\* and to_dict make of it, as they were.
C11_SaveFailureReported ==
    [][last'.op \in SaveWriters =>
          /\ ~last'.raised
          /\ last'.ret \in {"path", "None"}
          /\ response' = response
          /\ AnalyzeQuality(response') = AnalyzeQuality(response)
          /\ ToDict(response') = ToDict(response)]_vars

----------------------------------------------------------------------------
(* SearchClient.search_and_format *)

\* search_and_format(query, save_json, save_html, print_output): search, then
\* quick_format, which constructs the formatter, prints it in full when asked and
\* saves it; whatever either raises escapes
SearchAndFormat(history, query, reply, dir, fs, ds, opts, print_output, ts, io) ==
    CHOOSE out \in
        {IF s.raised \/ (print_output /\ PrintFullRaises(reply))
         THEN [raised |-> TRUE, history |-> s.history, files |-> fs]
         ELSE CHOOSE done \in
                 {[raised |-> q.raised, history |-> s.history, files |-> q.files] :
                     q \in {QuickFormat(reply, dir, fs, ds, opts, ts, io)}} : TRUE :
            s \in {Search(history, query, reply, ts)}} : TRUE

\* the formatter returned becomes the formatter the caller holds
search_and_format(query, reply, opts, print_output, ts, io) ==
    \E out \in {SearchAndFormat(search_history, query, reply, save_path, files, dirs,
                                opts, print_output, ts, io)} :
        /\ search_history' = out.history
        /\ request' = Request(query, reply, ts)
        /\ files' = out.files
        /\ response' = IF out.raised THEN response ELSE reply
        /\ snapshot' = Held(out.history)
        /\ last' = CallFull("search_and_format", out.raised, "value", <<>>, <<>>, Missing,
                            Missing, opts, io)
        /\ UNCHANGED <<save_path, dirs, filename_arg, outVars, shared, history_doc, batchVars>>

----------------------------------------------------------------------------
(* SpecSession: one SearchClient that searches, searches and formats, reads, exports
   and clears its history, with a collaborator that answers, fails or answers
   malformed *)

NoResultsResponse == Response(Str(<<"x">>), Missing, Missing, ResultsMissing, <<>>)

SessionReplies == {SearchError, NumberQueryResponse, NoResultsResponse}

SessionQueries == {Str(<<"a">>)}

SessionOptions ==
    {Options(FALSE, FALSE, FALSE), Options(TRUE, FALSE, FALSE), Options(FALSE, TRUE, FALSE)}

InitSession ==
    /\ response = NoResponse
    /\ filename_arg = Str(<<"a">>)
    /\ InitRest

NextSession ==
    \/ \E q \in SessionQueries, reply \in SessionReplies :
          Len(search_history) < MaxHistory /\ search(q, reply, Now)
    \/ \E q \in SessionQueries, reply \in SessionReplies, opts \in SessionOptions :
          /\ Len(search_history) < MaxHistory
          /\ search_and_format(q, reply, opts, TRUE, Now, "ok")
          /\ Cardinality(files') <= MaxFiles
    \/ get_search_history
    \/ clear_history
    \/ export_history(filename_arg, Now, "ok") /\ Cardinality(files') <= MaxFiles

SpecSession == InitSession /\ [][NextSession]_vars

\* the entry the claim requires for a search of query answered by reply at ts
ClaimedEntry(query, reply, ts) ==
    [query |-> query, timestamp |-> ts,
     results_count |-> IF reply.results.k = "list" THEN Len(reply.results.items) ELSE 0,
     response_time |-> IF reply.response_time.k = "missing" THEN Str(<<"N/A">>)
                       ELSE reply.response_time]

\* the search itself completed: the collaborator answered and the entry was counted
SearchCompleted(reply) == reply.k = "map" /\ reply.results.k # "none"

\* C12: ledger shape: each completed search, alone or in search_and_format, appends
\* one entry with that call's query, timestamp, result count and response time after
\* the entries already there; a search that fails adds nothing; clear_history
\* empties the history; get_search_history and export_history leave it as it is. So
\* the history is, in call order, one entry per completed search since the last
\* clear_history.
C12_LedgerShape ==
    [][/\ last'.op \in {"search", "search_and_format"} =>
             search_history' =
                IF SearchCompleted(request'.reply)
                THEN Append(search_history,
                            ClaimedEntry(request'.query, request'.reply, request'.ts))
                ELSE search_history
       /\ last'.op = "clear_history" => search_history' = <<>>
       /\ last'.op \in {"get_search_history", "export_history"} =>
             search_history' = search_history]_vars

\* two searches completed, the second inside a search_and_format that then raised
\* while saving: both entries are in the history, in call order
C12_Witness ==
    /\ Len(search_history) = 2
    /\ search_history[1] = ClaimedEntry(Str(<<"a">>), NoResultsResponse, Now)
    /\ search_history[2] = ClaimedEntry(Str(<<"a">>), NumberQueryResponse, Now)
    /\ last.op = "search_and_format" /\ last.raised

\* C13: when the external search call fails, search and search_and_format raise to
\* their caller, and nothing is normalized, formatted or written for that query: the
\* caller gets no formatter, the disk and the outputs stay as they were.
C13_SearchFailurePropagates ==
    [][(last'.op \in {"search", "search_and_format"} /\ request'.reply = SearchError) =>
          /\ last'.raised
          /\ response' = response
          /\ files' = files
          /\ UNCHANGED outVars]_vars

\* a search_and_format whose search failed, after one that succeeded and saved: the
\* earlier formatter and its file are all there is
C13_Witness ==
    /\ last.op = "search_and_format" /\ last.raised
    /\ request.reply = SearchError
    /\ response = NoResultsResponse
    /\ \E f \in files : f.writer = "save_json" /\ f.state = "complete"

----------------------------------------------------------------------------
(* Claims about the report and the structured document *)

ZeroResults ==
    /\ ~NotLoaded(response)
    /\ response.results.k = "missing" \/ response.results = ResultsList(<<>>)

ClampedScore(raw) == IF raw.k = "nan" THEN ScoreMax ELSE ClaimedScore(raw)

RECURSIVE SumClamped(_)
SumClamped(items) ==
    IF items = <<>> THEN 0
    ELSE ClampedScore(Get(Head(items).score, Num(0))) + SumClamped(Tail(items))

RawScoresAre(a, b) ==
    /\ Len(ListedResults) = 2 /\ AllMappings
    /\ ListedResults[1].score = Num(a) /\ ListedResults[2].score = Num(b)

\* C15: the average analyze_quality reports is the sum of the clamped scores of the
\* results divided by their number, unrounded, so it lies in [0,1]; scores 0.9 and 0.3
\* give count 2, average 0.6 and the buckets 1 / 0 / 1, scores 0.85 and 0.65 give
\* average 0.75 and the buckets 1 / 1 / 0.
C15_AverageIsMean ==
    (Analysed /\ ListedResults # <<>>) =>
        /\ Average(quality).num = SumClamped(ListedResults)
        /\ Average(quality).den = Len(ListedResults)
        /\ ScoreMin * Average(quality).den <= Average(quality).num
        /\ Average(quality).num <= ScoreMax * Average(quality).den
        /\ RawScoresAre(90, 30) =>
              /\ quality.count = 2 /\ Average(quality) = [num |-> 120, den |-> 2]
              /\ quality.high = 1 /\ quality.medium = 0 /\ quality.low = 1
        /\ RawScoresAre(85, 65) =>
              /\ quality.count = 2 /\ Average(quality) = [num |-> 150, den |-> 2]
              /\ quality.high = 1 /\ quality.medium = 1 /\ quality.low = 0

\* scores 1.5 and -5 were analysed: clamped to 1.0 and 0.0, their average is 0.5
C15_Witness ==
    /\ Analysed
    /\ RawScoresAre(150, -500)
    /\ Average(quality) = [num |-> 100, den |-> 2]

IsMapping(item) == item.k = "map"

\* C16: ranks are 1-based, contiguous and in input order: to_dict lists the results
\* that are mappings in the order of the raw response with ranks 1..N, N the number
\* listed, and an entry that is not a mapping is skipped, neither breaking the
\* numbering nor failing the conversion.
C16_RanksContiguous ==
    (last.op = "to_dict" /\ ~NotLoaded(response) /\ response.results.k # "none") =>
        /\ ~last.raised
        /\ structured.k = "dict"
        /\ LET kept == SelectSeq(ListedResults, IsMapping)
           IN  /\ Len(structured.results) = Len(kept)
               /\ \A i \in DOMAIN structured.results :
                     /\ i <= Len(kept)
                     /\ structured.results[i].rank = i
                     /\ structured.results[i].score = Get(kept[i].score, None)
                     /\ structured.results[i].title = Get(kept[i].title, None)

NonNullText(v) == v.k = "str"

\* C17: no required field is absent after normalization: in the document to_dict
\* returns, the query is a text (a placeholder when the raw query is missing or
\* null), and every result has a text title ("untitled" when missing), a text url
\* ("N/A" when missing), a text content ("" when missing) and a score that is a
\* number in [0,1]; none of them is null.
C17_NoFieldAbsent ==
    (last.op = "to_dict" /\ structured.k = "dict") =>
        /\ NonNullText(structured.query)
        /\ \A i \in DOMAIN structured.results :
              LET entry == structured.results[i]
                  raw == ListedResults[i]
              IN  /\ NonNullText(entry.title)
                  /\ NonNullText(entry.url)
                  /\ NonNullText(entry.content)
                  /\ raw.title.k = "missing" => entry.title = Str(<<"untitled">>)
                  /\ raw.url.k = "missing" => entry.url = Str(<<"N/A">>)
                  /\ raw.content.k = "missing" => entry.content = Str(<<>>)
                  /\ entry.score.k = "num"
                  /\ ScoreMin <= entry.score.n /\ entry.score.n <= ScoreMax

----------------------------------------------------------------------------
(* json.load: reading a saved file back *)

\* the numbers the numerals of a file can denote
JsonNumbers == (0 - 5 * ScoreMax) .. (2 * ScoreMax)

Object(keys, vals) == [k |-> "object", keys |-> keys, vals |-> vals]
Array(items) == [k |-> "array", items |-> items]
Parsed(v, next) == [v |-> v, next |-> next]
\* json.JSONDecodeError
Fail == Parsed([k |-> "error"], 0)

At(t, i) == IF i \in DOMAIN t THEN t[i] ELSE "EOF"

\* the string literal whose opening quote precedes position i
RECURSIVE ScanString(_, _, _)
ScanString(t, i, acc) ==
    CASE At(t, i) = "EOF" -> Fail
      [] At(t, i) = Quote -> Parsed(Str(acc), i + 1)
      [] At(t, i) = Backslash ->
            IF At(t, i + 1) \in {Quote, Backslash}
            THEN ScanString(t, i + 2, Append(acc, t[i + 1]))
            ELSE Fail
      [] OTHER -> ScanString(t, i + 1, Append(acc, t[i]))

RECURSIVE ParseValue(_, _)
RECURSIVE ParseMembers(_, _, _, _)
RECURSIVE ParseItems(_, _, _)

\* the value that starts at position i
ParseValue(t, i) ==
    CASE At(t, i) = "{" ->
            IF At(t, i + 1) = "}" THEN Parsed(Object(<<>>, <<>>), i + 2)
            ELSE ParseMembers(t, i + 1, <<>>, <<>>)
      [] At(t, i) = "[" ->
            IF At(t, i + 1) = "]" THEN Parsed(Array(<<>>), i + 2)
            ELSE ParseItems(t, i + 1, <<>>)
      [] At(t, i) = Quote -> ScanString(t, i + 1, <<>>)
      [] At(t, i) = "null" -> Parsed(None, i + 1)
      [] At(t, i) = "NaN" -> Parsed(NaN, i + 1)
      [] At(t, i) = HugeNumeral -> Parsed(HugeInt, i + 1)
      [] \E n \in JsonNumbers : ToString(n) = At(t, i) ->
            Parsed(Num(CHOOSE n \in JsonNumbers : ToString(n) = At(t, i)), i + 1)
      [] OTHER -> Fail

\* the members of an object from position i on, after those in keys and vals
ParseMembers(t, i, keys, vals) ==
    IF At(t, i) # Quote THEN Fail
    ELSE CHOOSE out \in
            {IF key.v.k = "error" \/ At(t, key.next) # ":" THEN Fail
             ELSE CHOOSE inner \in
                     {CASE val.v.k = "error" -> Fail
                        [] At(t, val.next) = "," ->
                              ParseMembers(t, val.next + 1, Append(keys, key.v.s),
                                           Append(vals, val.v))
                        [] At(t, val.next) = "}" ->
                              Parsed(Object(Append(keys, key.v.s), Append(vals, val.v)),
                                     val.next + 1)
                        [] OTHER -> Fail :
                          val \in {ParseValue(t, key.next + 1)}} : TRUE :
                key \in {ScanString(t, i + 1, <<>>)}} : TRUE

\* the items of an array from position i on, after those in items
ParseItems(t, i, items) ==
    CHOOSE out \in
        {CASE val.v.k = "error" -> Fail
           [] At(t, val.next) = "," -> ParseItems(t, val.next + 1, Append(items, val.v))
           [] At(t, val.next) = "]" -> Parsed(Array(Append(items, val.v)), val.next + 1)
           [] OTHER -> Fail :
             val \in {ParseValue(t, i)}} : TRUE

\* json.load(f): the value of the whole text
JsonLoad(t) ==
    CHOOSE out \in
        {IF p.next = Len(t) + 1 THEN p.v ELSE Fail.v : p \in {ParseValue(t, 1)}} : TRUE

\* obj[key]
Member(obj, key) ==
    IF obj.k = "object" /\ \E i \in DOMAIN obj.keys : obj.keys[i] = <<key>>
    THEN obj.vals[CHOOSE i \in DOMAIN obj.keys : obj.keys[i] = <<key>>]
    ELSE Fail.v

\* a list reads back as a list
Plain(p) == IF p.k = "array" THEN ListVal ELSE p

----------------------------------------------------------------------------
(* Saving the structured document and reading it back *)

\* a title with the characters a string literal escapes, and one with a comma
QuotedTitle == Str(<<"a", Quote, "}">>)
BackslashTitle == Str(<<Backslash, ",">>)

\* scores of every kind: fractions, a number outside [0,1], null, absent, a text, NaN,
\* the huge integer, a list
RoundTripScores ==
    {Num(85), Num(-500), None, Missing, Str(<<"abc">>), NaN, HugeInt, ListVal}

RoundTripItems ==
    {Result(QuotedTitle, Url, Content, sc) : sc \in RoundTripScores}
      \cup {Result(BackslashTitle, Url, Content, Num(85))}

RoundTripResponses ==
    {Response(query, Num(120), Str(<<Backslash>>), ResultsList(items), <<Str(<<"a", ",">>)>>) :
        query \in {Str(<<"a", Quote>>), None},
        items \in SeqsUpTo(RoundTripItems, MaxResults)}

InitRoundTrip ==
    /\ response \in RoundTripResponses
    /\ filename_arg = Str(<<"a">>)
    /\ InitRest

NextRoundTrip ==
    \/ \E io \in IoOutcomes : save_json(filename_arg, TRUE, Now, io)
    \/ to_dict

SpecRoundTrip == InitRoundTrip /\ [][NextRoundTrip]_vars

\* the file save_json has just written
WrittenDocument == last.op = "save_json" /\ last.ret = "path"

\* C18: the file save_json writes from to_dict() reads back with the four section keys,
\* a result count equal to the number of results it lists, and for every result the
\* rank and exactly the score of the structured document
C18_RoundTrip ==
    WrittenDocument =>
        \E back \in {JsonLoad(json_doc)}, doc \in {ToDict(response)} :
            /\ back.k = "object"
            /\ back.keys = [i \in DOMAIN SectionKeys |-> <<SectionKeys[i]>>]
            /\ \E info \in {Member(back, SectionKeys[1])},
                  listed \in {Member(back, SectionKeys[3])} :
                  /\ info.k = "object"
                  /\ info.keys = [i \in DOMAIN InfoKeys |-> <<InfoKeys[i]>>]
                  /\ listed.k = "array"
                  /\ Member(info, InfoKeys[3]) = Num(Len(listed.items))
                  /\ Len(listed.items) = Len(doc.results)
                  /\ \A i \in DOMAIN doc.results :
                        /\ Member(listed.items[i], EntryKeys[1]) = Num(doc.results[i].rank)
                        /\ Member(listed.items[i], EntryKeys[1]) = Num(i)
                        /\ Plain(Member(listed.items[i], EntryKeys[4])) = doc.results[i].score

\* a document with two results, a quote in a title and a fractional score, read back
C18_Witness ==
    /\ WrittenDocument
    /\ Len(ListedResults) = MaxResults
    /\ ListedResults[1].title = QuotedTitle
    /\ ListedResults[1].score = Num(85)
    /\ ListedResults[2].score = NaN
    /\ Member(JsonLoad(json_doc), SectionKeys[1]).k = "object"

----------------------------------------------------------------------------
(* The answer in the structured document and in the HTML document *)

\* answers: absent, null, the empty text, texts
Answers == {Missing, None, Str(<<>>), Str(<<"s">>), Str(<<"<", "s">>)}

AnswerResponses ==
    {Response(Str(<<"x">>), Num(120), answer, rs, follow_up) :
        answer \in Answers,
        rs \in {ResultsMissing, ResultsList(<<>>),
                ResultsList(<<Result(Title, Url, Content, Num(80))>>)},
        follow_up \in {<<>>, <<Str(<<"s">>)>>}}

InitAnswer ==
    /\ response \in AnswerResponses
    /\ filename_arg = Str(<<"a">>)
    /\ InitRest

NextAnswer ==
    \/ \E r \in AnswerResponses : load_response(r)
    \/ to_dict
    \/ \E title \in {Missing, Str(<<"s">>)} : save_html(filename_arg, title, Now, "ok")

SpecAnswer == InitAnswer /\ [][NextAnswer]_vars

AnswerAbsent == response.answer.k \in {"missing", "none"}
AnswerBlock == "<div class=ai-answer>"
HtmlWritten == last.op = "save_html" /\ last.ret = "path"

\* C19: when the response has no answer (the key absent, or null) to_dict carries null
\* for the answer, never the empty text, and the HTML document has no AI-answer block;
\* the block appears only when the answer is a non-empty text
C19_AbsentAnswerStaysAbsent ==
    /\ (last.op = "to_dict" /\ structured.k = "dict" /\ AnswerAbsent) =>
          structured.answer = None
    /\ (HtmlWritten /\ AnswerAbsent) => AnswerBlock \notin Range(html_doc)
    /\ (HtmlWritten /\ AnswerBlock \in Range(html_doc)) =>
          (response.answer.k = "str" /\ response.answer.s # <<>>)

----------------------------------------------------------------------------
(* The generated filename *)

\* upper case, unsafe and non-ASCII characters, blanks, underscores
NameChars == {"a", "A", "/", " ", "_", CJK}

\* a query longer than the slug may be, with an underscore where the cut falls
LongQuery == [i \in 1..(DefaultMaxLength + 1) |-> IF i = DefaultMaxLength THEN "_" ELSE "a"]

NameQueries ==
    {Str(t) : t \in SeqsUpTo(NameChars, MaxText)} \cup {Str(LongQuery), Missing, None, Num(5)}

NameResponses ==
    {Response(query, Num(120), Missing,
              ResultsList(<<Result(Title, Url, Content, Num(80))>>), <<>>) :
        query \in NameQueries}

InitNames ==
    /\ response \in NameResponses
    /\ filename_arg = Missing
    /\ InitRest

NextNames ==
    \/ \E formatted \in BOOLEAN, io \in IoOutcomes :
          save_json(filename_arg, formatted, Now, io)
    \/ \E io \in IoOutcomes : save_html(filename_arg, Missing, Now, io)

SpecNames == InitNames /\ [][NextNames]_vars

\* the characters [A-Za-z0-9_.- ] of the model's alphabets
AsciiKept == {"a", "A", "s", "x", "e", "r", "c", "h", "_", ".", "-", " "}
Lower(ch) == IF ch = "A" THEN "a" ELSE ch

\* the slug as claimed: lowercased, the other characters removed, the blanks
\* collapsed to underscores, at most max_length characters, "unnamed" when empty
ClaimedSlug(t, max_length) ==
    LET lowered == [i \in DOMAIN t |-> Lower(t[i])]
        kept == FilterSeq(lowered, AsciiKept)
        joined == CollapseRuns(kept, " ")
        cut == SubSeq(joined, 1, IF Len(joined) > max_length THEN max_length ELSE Len(joined))
    IN  IF cut = <<>> THEN <<"unnamed">> ELSE cut

Extension == IF last.op = "save_json" THEN ".json" ELSE ".html"

\* a save without a filename that wrote its file
SavedUnderGeneratedName == Saved /\ ~Truthy(last.filename)

\* C20: without a filename the name is "tavily_" + slug + "_" + timestamp + extension,
\* where for every query the slug is the lowercased query with every character
\* outside [A-Za-z0-9_.- ] removed and the blanks collapsed to underscores, is at most
\* 50 characters long, and is "unnamed" when nothing remains
C20_GeneratedName ==
    (SavedUnderGeneratedName /\ response.query.k = "str") =>
        /\ last.name = GeneratedName(ClaimedSlug(response.query.s, DefaultMaxLength),
                                     Now, Extension)
        /\ Len(ClaimedSlug(response.query.s, DefaultMaxLength)) <= DefaultMaxLength

----------------------------------------------------------------------------
(* TavilyFormatter(response, save_path) and helpers.ensure_directory *)

\* Path.cwd() / "tavily_results"
FallbackDir == Append(Cwd, <<"tavily_results">>)

\* a directory with its parents
Ancestors(dir) == {SubSeq(dir, 1, n) : n \in 0..Len(dir)}

\* what the environment does to one mkdir(parents=True, exist_ok=True)
MkdirOutcomes == {"ok", "fails"}

\* ensure_directory(path): the directory it returns and the directories that exist
\* afterwards; the mkdir of the fallback directory is outside the try
EnsureDirectory(path, ds, mk, fallback_mk) ==
    IF path \in ds THEN [raised |-> FALSE, dirs |-> ds, ret |-> path]
    ELSE IF mk = "ok" THEN [raised |-> FALSE, dirs |-> ds \cup Ancestors(path), ret |-> path]
    ELSE IF fallback_mk = "ok"
    THEN [raised |-> FALSE, dirs |-> ds \cup Ancestors(FallbackDir), ret |-> FallbackDir]
    ELSE [raised |-> TRUE, dirs |-> ds, ret |-> <<>>]

\* the save_path argument: a directory, or None
PathArg(dir) == [k |-> "str", dir |-> dir]
NoPathArg == [k |-> "none", dir |-> <<>>]

\* save_path or self._get_default_save_path()
ChosenPath(arg) == IF arg.k = "none" THEN ConfigResultsPath ELSE arg.dir

\* __init__: the formatter keeps the path it was given; what ensure_directory
\* returns is dropped
TavilyFormatter(r, arg, mk, fallback_mk) ==
    \E out \in {EnsureDirectory(ChosenPath(arg), dirs, mk, fallback_mk)} :
        /\ dirs' = out.dirs
        /\ response' = IF out.raised THEN response ELSE r
        /\ save_path' = IF out.raised THEN save_path ELSE ChosenPath(arg)
        /\ last' = Call("TavilyFormatter", out.raised, IF out.raised THEN "None" ELSE "self",
                        <<>>, <<>>)
        /\ UNCHANGED <<files, filename_arg, outVars, clientVars, batchVars>>

----------------------------------------------------------------------------
(* SpecDirectory: formatters constructed on directories that may not exist and may
   not be creatable, then saving *)

BareDisk == {<<>>, Cwd}

DirectoryArgs ==
    {NoPathArg, PathArg(Cwd), PathArg(<<<<"w">>, <<"x">>, <<"y">>>>)}

DirectoryResponses == {BaseResponse, NoResponse}

InitDirectory ==
    /\ \E arg \in DirectoryArgs, mk \in MkdirOutcomes :
          /\ save_path = ChosenPath(arg)
          /\ dirs = EnsureDirectory(ChosenPath(arg), BareDisk, mk, "ok").dirs
    /\ files = {}
    /\ response \in DirectoryResponses
    /\ filename_arg = Str(<<"a">>)
    /\ InitIdle

NextDirectory ==
    \/ \E r \in DirectoryResponses, arg \in DirectoryArgs, mk \in MkdirOutcomes,
          fallback_mk \in MkdirOutcomes :
          TavilyFormatter(r, arg, mk, fallback_mk)
    \/ save_json(filename_arg, TRUE, Now, "ok")
    \/ save_html(filename_arg, Missing, Now, "ok")

SpecDirectory == InitDirectory /\ [][NextDirectory]_vars

\* the formatter's directory could not be created and the fallback directory was
FellBack == save_path \notin dirs /\ FallbackDir \in dirs

\* C21: a save directory that does not exist is created with its parents; when that
\* fails the constructor does not abort but falls back to tavily_results under the
\* working directory, and the later save_json and save_html write there
C21_DirectoryFallback ==
    /\ last.op = "TavilyFormatter" =>
          /\ ~last.raised
          /\ Ancestors(save_path) \subseteq dirs \/ FellBack
    /\ (last.op \in SaveWriters /\ ~NotLoaded(response) /\ FellBack) =>
          /\ Saved
          /\ last.dir = FallbackDir
          /\ \E f \in files : f.dir = FallbackDir /\ f.name = last.name

----------------------------------------------------------------------------
(* SpecEmpty: a formatter constructed without a response, used before and after
   load_response *)

EmptyResponses == {NoResponse, EmptyMapping, BaseResponse, NullResultsResponse}

InitEmpty ==
    /\ response = NoResponse
    /\ filename_arg = Str(<<"a">>)
    /\ InitRest

NextEmpty ==
    \/ \E r \in EmptyResponses : load_response(r)
    \/ to_dict
    \/ analyze_quality
    \/ \E fn \in {filename_arg, Missing}, io \in IoOutcomes :
          save_json(fn, TRUE, Now, io) /\ Cardinality(files') <= MaxFiles
    \/ \E fn \in {filename_arg, Missing}, io \in IoOutcomes :
          save_html(fn, Missing, Now, io) /\ Cardinality(files') <= MaxFiles

SpecEmpty == InitEmpty /\ [][NextEmpty]_vars

\* no response is loaded: None, or the empty mapping
NothingLoaded == response \in {NoResponse, EmptyMapping}

\* C22: while no response is loaded to_dict returns None, analyze_quality returns the
\* empty report, and save_json and save_html return None without raising and create
\* no file; load_response returns the formatter itself, and afterwards to_dict and
\* analyze_quality are those of the loaded response and a save that returns a path
\* has written its file
C22_EmptyFormatter ==
    [][/\ (NothingLoaded /\ last'.op = "to_dict") =>
              (~last'.raised /\ last'.ret = "None" /\ structured'.k = "None")
       /\ (NothingLoaded /\ last'.op = "analyze_quality") =>
              (~last'.raised /\ quality'.k = "empty")
       /\ (NothingLoaded /\ last'.op \in SaveWriters) =>
              (~last'.raised /\ last'.ret = "None" /\ files' = files)
       /\ last'.op = "load_response" => (~last'.raised /\ last'.ret = "self")
       /\ (~NothingLoaded /\ last'.op = "to_dict") => structured' = ToDict(response)
       /\ (~NothingLoaded /\ last'.op = "analyze_quality") =>
              quality' = AnalyzeQuality(response)
       /\ (~NothingLoaded /\ last'.op \in SaveWriters /\ last'.ret = "path") =>
              \E f \in files' : /\ f.dir = last'.dir /\ f.name = last'.name
                                /\ f.state = "complete"]_vars

\* a formatter without a response was asked to save and wrote nothing, and one that
\* was loaded afterwards has saved a file
C22_Witness ==
    \/ /\ NothingLoaded /\ last.op = "save_html" /\ last.ret = "None" /\ files = {}
       /\ structured.k = "None" /\ quality.k = "empty"
    \/ /\ response = BaseResponse /\ Saved /\ structured.k = "dict"

----------------------------------------------------------------------------
(* SpecExport: a search client whose history is exported while the disk may fail *)

ExportQueries == {Str(<<"a">>), Str(<<"x", Quote>>)}
ExportReplies == {SearchError, BaseResponse}

InitExport ==
    /\ response = NoResponse
    /\ filename_arg = Str(<<"a">>)
    /\ InitRest

NextExport ==
    \/ \E q \in ExportQueries, reply \in ExportReplies :
          Len(search_history) < MaxHistory /\ search(q, reply, Now)
    \/ clear_history
    \/ \E fn \in {filename_arg, Missing}, io \in IoOutcomes :
          export_history(fn, Now, io) /\ Cardinality(files') <= MaxFiles

SpecExport == InitExport /\ [][NextExport]_vars

----------------------------------------------------------------------------
(* Claims about the exported history *)

\* the entry an object of the exported file denotes
ReadEntry(obj) ==
    [query |-> Member(obj, HistoryKeys[1]),
     timestamp |-> Member(obj, HistoryKeys[2]),
     results_count |-> Member(obj, HistoryKeys[3]),
     response_time |-> Member(obj, HistoryKeys[4])]

\* the entry of the ledger, as values of the file; an absent response time is
\* recorded as None
WrittenEntry(entry) ==
    [query |-> entry.query, timestamp |-> Str(<<entry.timestamp>>),
     results_count |-> Num(entry.results_count),
     response_time |-> GetOrNone(entry.response_time)]

\* C23: export_history never raises; on an empty ledger it returns None and writes no
\* file; a returned path names a complete file that holds all entries of the ledger
\* in ledger order; an I/O failure makes it return None
C23_ExportHistory ==
    [][last'.op = "export_history" =>
          /\ ~last'.raised
          /\ search_history = <<>> => (last'.ret = "None" /\ files' = files)
          /\ last'.ret = "path" =>
                /\ search_history # <<>>
                /\ \E f \in files' : /\ f.dir = last'.dir /\ f.name = last'.name
                                     /\ f.state = "complete"
                /\ \E back \in {JsonLoad(history_doc')} :
                      /\ back.k = "array"
                      /\ Len(back.items) = Len(search_history)
                      /\ \A i \in DOMAIN search_history :
                            ReadEntry(back.items[i]) = WrittenEntry(search_history[i])
          /\ last'.ret = "None" => history_doc' = history_doc]_vars

\* two searches were recorded and exported
C23_Witness ==
    /\ last.op = "export_history" /\ last.ret = "path"
    /\ Len(search_history) = MaxHistory
    /\ search_history[1].query # search_history[2].query
    /\ Len(JsonLoad(history_doc).items) = MaxHistory

----------------------------------------------------------------------------
(* Claims about clearing the history *)

Searches == {"search", "search_and_format"}

\* C24: clear_history empties the ledger whatever it held; while the ledger is empty
\* get_search_history returns the empty sequence and export_history returns None and
\* writes nothing; the ledger stays empty until a search completes, and the entry of
\* that search is then the first and only one
C24_ClearHistory ==
    [][/\ last'.op = "clear_history" => (search_history' = <<>> /\ ~last'.raised)
       /\ search_history = <<>> =>
             /\ last'.op = "get_search_history" => snapshot' = <<>>
             /\ last'.op = "export_history" =>
                   (last'.ret = "None" /\ files' = files /\ history_doc' = history_doc)
             /\ ~(last'.op \in Searches /\ SearchCompleted(request'.reply)) =>
                   search_history' = <<>>
             /\ (last'.op \in Searches /\ SearchCompleted(request'.reply)) =>
                   search_history' =
                      <<ClaimedEntry(request'.query, request'.reply, request'.ts)>>]_vars

\* a search completed, the ledger was cleared and then read: the ledger and the list
\* read are empty
C24_Witness ==
    /\ search_history = <<>>
    /\ SearchCompleted(request.reply)
    /\ last.op = "get_search_history"
    /\ snapshot = <<>>

----------------------------------------------------------------------------
(* SpecArtifacts: search_and_format asked for the JSON file, the HTML report, both or
   neither, while either write may fail *)

ArtifactReplies ==
    {SearchError, BaseResponse, TextScoreResponse, SurrogateResponse, NumberQueryResponse}

ArtifactOptions == {Options(j, h, FALSE) : j \in BOOLEAN, h \in BOOLEAN}

InitArtifacts ==
    /\ response = NoResponse
    /\ filename_arg = Missing
    /\ InitRest

NextArtifacts ==
    \E reply \in ArtifactReplies, opts \in ArtifactOptions, io \in PairOutcomes :
        /\ Len(search_history) < MaxHistory
        /\ search_and_format(Str(<<"a">>), reply, opts, FALSE, Now, io)

SpecArtifacts == InitArtifacts /\ [][NextArtifacts]_vars

\* the file of that writer under the name generated for the response r
Artifact(fs, r, writer, ext) ==
    {f \in fs : /\ f.writer = writer /\ f.dir = save_path
                /\ f.name = PathName(AutoName(r, Now, ext).name)}

\* search_and_format returned after it was asked for both artifacts of a response
BothAsked(call, reply) ==
    /\ call.op = "search_and_format" /\ ~call.raised
    /\ call.opts.save_json /\ call.opts.save_html
    /\ ~NotLoaded(reply)

\* C25: the JSON file and the HTML report of one response are written by two
\* independent operations, JSON first: when the HTML write fails the JSON file
\* written stays, complete; when the JSON write fails the HTML write is still
\* attempted; and no other file is touched
C25_IndependentWrites ==
    [][BothAsked(last', request'.reply) =>
          /\ (JsonIo(last'.io) = "ok" /\ Surrogate \notin ResponseSymbols(request'.reply)) =>
                \E f \in Artifact(files', request'.reply, "save_json", ".json") :
                    f.state = "complete"
          /\ (HtmlIo(last'.io) # "open_fails" /\ ~HtmlRaises(request'.reply)) =>
                Artifact(files', request'.reply, "save_html", ".html") # {}
          /\ (HtmlIo(last'.io) = "ok" /\ ~HtmlRaises(request'.reply)
                /\ Surrogate \notin ResponseSymbols(request'.reply)) =>
                \E f \in Artifact(files', request'.reply, "save_html", ".html") :
                    f.state = "complete"
          /\ \A f \in files :
                (f \notin Artifact(files, request'.reply, "save_json", ".json")
                   /\ f \notin Artifact(files, request'.reply, "save_html", ".html")) =>
                      f \in files']_vars

\* both were asked for and only the HTML write failed: the JSON file is complete next
\* to the partial HTML file
C25_Witness ==
    /\ BothAsked(last, request.reply)
    /\ last.io = "html_write_fails"
    /\ \E f \in Artifact(files, request.reply, "save_json", ".json") : f.state = "complete"
    /\ \E f \in Artifact(files, request.reply, "save_html", ".html") : f.state = "partial"

\* both were asked for and only the JSON write failed: the HTML report is complete
\* next to the partial JSON file
C25_JsonFailedHtmlWritten ==
    /\ BothAsked(last, request.reply)
    /\ last.io = "json_write_fails"
    /\ \E f \in Artifact(files, request.reply, "save_json", ".json") : f.state = "partial"
    /\ \E f \in Artifact(files, request.reply, "save_html", ".html") : f.state = "complete"

----------------------------------------------------------------------------
(* Claims about normalizing twice *)

\* the result with its score coerced and clamped
NormalizedResult(result) ==
    Result(result.title, result.url, result.content, Num(CoerceScore(result).v))

\* the response with every score coerced and clamped and the response time defaulted
NormalizedResponse(r) ==
    Response(r.query, Get(r.response_time, Str(<<"N/A">>)), r.answer,
             ResultsList([i \in DOMAIN r.results.items |->
                             NormalizedResult(r.results.items[i])]),
             r.follow_up)

\* C26: coercing and clamping is idempotent: for every raw score the coercion of the
\* coerced score is the coerced score, and the response built from the normalized
\* values has the same report
C26_SanitizationIdempotent ==
    (Analysed /\ response.results.k = "list") =>
        /\ \A i \in DOMAIN ListedResults :
              CoerceScore(NormalizedResult(ListedResults[i])) = CoerceScore(ListedResults[i])
        /\ AnalyzeQuality(NormalizedResponse(response)) = quality

\* a report on a score above the range and a score that is a text
C26_Witness ==
    /\ Analysed
    /\ Len(ListedResults) = 2
    /\ ListedResults[1].score = Num(150)
    /\ ListedResults[2].score = Str(<<"abc">>)
    /\ quality.scores = <<ScoreMax, ScoreMin>>

----------------------------------------------------------------------------
(* Reading the loaded response *)

\* a content longer than the short limit
LongContent == Str(<<"a", "b">>)
ShortLimit == Len(LongContent.s) - 1
ContentLimits == {ShortLimit, DefaultContentLength}

ReadingResponses ==
    {Response(Str(<<"x">>), Num(120), answer, ResultsList(items), questions) :
        answer \in {Missing, Str(<<"s">>)},
        items \in {<<Result(Title, Url, LongContent, Num(85))>>,
                   <<Result(Title, Url, LongContent, Num(30)),
                     Result(Title, Url, Content, Str(<<"abc">>))>>},
        questions \in {<<>>, <<Str(<<"h">>)>>}}
      \cup {NoResponse}

InitReading ==
    /\ response \in ReadingResponses
    /\ filename_arg = Str(<<"a">>)
    /\ InitRest

\* every operation that reads the response, in every order
NextReading ==
    \/ \E limit \in ContentLimits : print_results(limit)
    \/ \E limit \in ContentLimits : print_full(limit)
    \/ to_dict
    \/ analyze_quality
    \/ save_json(filename_arg, TRUE, Now, "ok")
    \/ save_html(filename_arg, Missing, Now, "ok")

SpecReading == InitReading /\ [][NextReading]_vars

\* every output produced so far is the output the same call would produce now
RepeatsAgree ==
    /\ console.lines = <<>>
          \/ console.lines = PrintResults(response, console.max_content_length).lines
          \/ console.lines = PrintFull(response, console.max_content_length).lines
    /\ quality = NoReport \/ quality = AnalyzeQuality(response)
    /\ structured = NoDocument \/ structured = ToDict(response)
    /\ json_doc = <<>> \/ json_doc = JsonDump(response, TRUE)
    /\ html_doc = <<>>
          \/ html_doc = GenerateHtmlContent(response, DefaultTitle(response)).doc

\* C27: print_results and print_full (with any max_content_length, also one that
\* shortens a content), to_dict, analyze_quality, save_json and save_html leave the
\* loaded response as it was, so each of them repeated gives the output it gave before
C27_ReadsLeaveResponse == [][response' = response]_vars /\ []RepeatsAgree

\* a content was printed shortened, after the document, the report and both files
\* had been produced from it
C27_Witness ==
    /\ last.op \in {"print_results", "print_full"}
    /\ console.max_content_length = ShortLimit
    /\ Occurs(<<"a", "...">>, console.lines)
    /\ structured.k = "dict"
    /\ quality.k = "report"
    /\ json_doc # <<>>
    /\ html_doc # <<>>
    /\ response.results.items[1].content = LongContent

----------------------------------------------------------------------------
(* Claims about when the history entry is appended *)

\* the search of a topic raises: the progress print of the query fails, the
\* collaborator raises, or its reply has results: null
SearchFails(topic, reply) ==
    PrintRaises(topic) \/ reply.k # "map" \/ GetResults(reply).k = "none"

\* one pass of the batch loop has handled a topic
TopicHandled == Len(outcomes') = Len(outcomes) + 1

\* C28: the history entry is appended after the collaborator has returned and before
\* any formatting or writing: a search that raises leaves the ledger as it was and
\* yields no formatter, a search that returns appends one entry for the query whether
\* or not formatting and writing then fail; so when the batch has returned the ledger
\* has at least as many entries as formatters were returned and at most as many as
\* there were queries
C28_EntryBetweenSearchAndFormatting ==
    /\ [][TopicHandled =>
            LET o == outcomes'[Len(outcomes')]
            IN  IF SearchFails(o.topic, o.reply)
                THEN /\ search_history' = search_history
                     /\ formatters' = formatters
                     /\ o.status = "failed"
                ELSE /\ Len(search_history') = Len(search_history) + 1
                     /\ SubSeq(search_history', 1, Len(search_history)) = search_history
                     /\ search_history'[Len(search_history')].query = o.topic]_vars
    /\ [](pc = "done" =>
            /\ Len(formatters) <= Len(search_history)
            /\ Len(search_history) <= Len(topics))

\* a batch of two topics has returned: the collaborator raised for the first, the
\* second was searched and its formatting failed; the ledger holds the second only
C28_Witness ==
    /\ pc = "done"
    /\ Len(topics) = 2 /\ Len(outcomes) = 2
    /\ outcomes[1].reply = SearchError /\ outcomes[1].status = "failed"
    /\ outcomes[2].reply = NumberQueryResponse /\ outcomes[2].status = "failed"
    /\ options.save_json
    /\ formatters = <<>>
    /\ Len(search_history) = 1
    /\ search_history[1].query = topics[2]

----------------------------------------------------------------------------
(* SpecSnapshot: a caller that keeps the list get_search_history returned and changes
   it while the client goes on searching and clearing *)

\* an entry of the caller's own making
CallerEntry == HistoryEntry(Str(<<"h">>), Now, 0, Str(<<"N/A">>))

InitSnapshot ==
    /\ response = NoResponse
    /\ filename_arg = Missing
    /\ InitRest

NextSnapshot ==
    \/ \E q \in Queries, reply \in Replies, ts \in Timestamps :
          Len(search_history) < MaxHistory /\ search(q, reply, ts)
    \/ get_search_history
    \/ clear_history
    \/ Len(snapshot) <= MaxHistory /\ Len(search_history) <= MaxHistory
          /\ caller_appends(CallerEntry)
    \/ caller_removes

SpecSnapshot == InitSnapshot /\ [][NextSnapshot]_vars

\* C29: get_search_history returns a snapshot: appending to or removing from the
\* returned list leaves the ledger as it was, and a later search or clear_history
\* leaves the returned list as it was, entry for entry
C29_HistorySnapshot ==
    [][/\ last'.op \in {"caller_appends", "caller_removes"} =>
             search_history' = search_history
       /\ last'.op \in {"search", "clear_history"} => snapshot' = snapshot]_vars

\* the caller appended an entry of its own to a returned list of one entry, and the
\* client then searched again: the ledger holds the two searches, the returned list
\* the first search and the caller's entry
C29_Witness ==
    /\ last.op = "search" /\ ~last.raised
    /\ Len(search_history) = 2
    /\ snapshot = <<search_history[1], CallerEntry>>
    /\ CallerEntry \notin Range(search_history)

----------------------------------------------------------------------------
(* The top-level tavily_formatter.py: the analyzer that buckets the raw scores *)

\* what the top-level analyze_quality returns, as far as the package's report has a
\* counterpart: the count, the distribution and the response time (the average of
\* the raw scores and the content statistics are left out)
LegacyReport(kind, count, high, medium, low, rt) ==
    [k |-> kind, count |-> count, high |-> high, medium |-> medium, low |-> low,
     response_time |-> rt]

\* sum(scores) / len(scores) raises on a score that is no number and on an integer
\* too large for a float
LegacyAverageRaises(raw) ==
    \E i \in DOMAIN raw : raw[i].k \notin {"num", "nan"}

\* len(result.get('content', '')) raises on a content without a length
LegacyContentRaises(items) ==
    \E i \in DOMAIN items : Get(items[i].content, Str(<<>>)).k \notin {"str", "list"}

\* the raw score in a bucket: no comparison with a NaN is true
RawIn(score, Bucket(_)) == score.k = "num" /\ Bucket(score.n)

LegacyAnalyzeQuality(r) ==
    IF NotLoaded(r) THEN LegacyReport("empty", 0, 0, 0, 0, Missing)
    ELSE LET results == GetResults(r)
         IN  IF ResultsFalsy(results) THEN LegacyReport("no_results", 0, 0, 0, 0, Missing)
             ELSE IF \E i \in DOMAIN results.items : results.items[i].k # "map"
             THEN LegacyReport("raised", 0, 0, 0, 0, Missing)
             ELSE LET raw == [i \in DOMAIN results.items |->
                                 Get(results.items[i].score, Num(0))]
                  IN  IF LegacyAverageRaises(raw) \/ LegacyContentRaises(results.items)
                      THEN LegacyReport("raised", 0, 0, 0, 0, Missing)
                      ELSE LegacyReport("report", Len(results.items),
                              Cardinality({i \in DOMAIN raw : RawIn(raw[i], IsHigh)}),
                              Cardinality({i \in DOMAIN raw : RawIn(raw[i], IsMedium)}),
                              Cardinality({i \in DOMAIN raw : RawIn(raw[i], IsLow)}),
                              Get(r.response_time, Str(<<"N/A">>)))

legacy_analyze_quality ==
    /\ \E report \in {LegacyAnalyzeQuality(response)} :
          /\ quality' = report
          /\ last' = Call("legacy_analyze_quality", report.k = "raised", "value", <<>>, <<>>)
    /\ UNCHANGED <<fmtVars, diskVars, structured, html_doc, json_doc, console, clientVars,
                   batchVars>>

----------------------------------------------------------------------------
(* SpecLegacy: one response with numeric scores, analysed by the package's analyzer
   and by the top-level one *)

NumericScores == {Num(n) : n \in {-500, 30, 40, 65, 70, 85, 150}} \cup {NaN, HugeInt}
LegacyContents == {Content, None}
LegacyItems == {Result(Title, Url, content, sc) : content \in LegacyContents,
                                                   sc \in NumericScores}

LegacyResponses ==
    {Response(Str(<<"x">>), Num(120), Missing, ResultsList(items), <<>>) :
        items \in SeqsUpTo(LegacyItems, MaxResults) \ {<<>>}}

InitLegacy ==
    /\ response \in LegacyResponses
    /\ filename_arg = Missing
    /\ InitRest

NextLegacy ==
    \/ analyze_quality
    \/ legacy_analyze_quality

SpecLegacy == InitLegacy /\ [][NextLegacy]_vars

\* what the analyzer that did not run last returns for the loaded response
OtherReport ==
    IF last.op = "analyze_quality" THEN LegacyAnalyzeQuality(response)
    ELSE AnalyzeQuality(response)

\* C30: for a response with a non-empty result list whose scores are all numbers, the
\* package's analyzer (clamp, then bucket) and the top-level analyzer (bucket the raw
\* scores) agree: both report, with the same result count and the same
\* high / medium / low distribution
C30_ClampKeepsBucket ==
    last.op \in {"analyze_quality", "legacy_analyze_quality"} =>
        /\ quality.k = OtherReport.k
        /\ quality.k = "report" =>
              /\ quality.count = OtherReport.count
              /\ quality.high = OtherReport.high
              /\ quality.medium = OtherReport.medium
              /\ quality.low = OtherReport.low

====
